---------------------------- MODULE Spec2Model ----------------------------
(***************************************************************************)
(* A model of the Kal front end: the lexer (gettok), the recursive-descent *)
(* parser, the IR generator and the top-level driver (MainLoop) with the   *)
(* JIT host it hands modules to.                                           *)
(*                                                                         *)
(* Spec      the driver run on a token stream (parser + codegen + JIT)     *)
(* LexSpec   the lexer run on a character stream                           *)
(***************************************************************************)
EXTENDS Integers, Sequences, FiniteSets, TLC

(***************************************************************************)
(* Tokens.  A token is <<kind, text, num>>: the kind is the Token          *)
(* enumerator (or "ch" for a raw ASCII character); text is what the lexer  *)
(* leaves in IdentifierStr / StrVal and num what it leaves in IntVal /     *)
(* FPVal.  A double is modelled by a natural number (see fadd below).      *)
(***************************************************************************)
K(kind) == <<kind, "", 0>>
Id(name) == <<"id", name, 0>>
Ch(c) == <<"ch", c, 0>>
IntLit(val) == <<"int", "", val>>
FpLit(val) == <<"fp", "", val>>
StrLit(text) == <<"str", text, 0>>

tok_eof == K("eof")

\* CurTok after the parser has read p-1 tokens of ts; the lexer keeps
\* returning tok_eof at the end of input.
CurTok(ts, p) == IF p > Len(ts) THEN tok_eof ELSE ts[p]

\* getNextToken: the end of file is not consumed.
getNextToken(ts, p) == IF p > Len(ts) THEN p ELSE p + 1

(***************************************************************************)
(* AST nodes are tagged tuples; NullAST is the null unique_ptr.            *)
(*   <<"num", flavour, sval, val>>  <<"var", name>>  <<"un", op, e>>       *)
(*   <<"bin", op, l, r>>       <<"call", callee, args>>                    *)
(*   <<"vardecl", name, type, init>>  <<"if", c, t, e>>                    *)
(*   <<"for", var, start, end, step, body>>  <<"block", stmts>>            *)
(*   <<"ret", e>>  <<"function", proto, body>>                             *)
(***************************************************************************)
NullAST == <<"null">>
IsNull(n) == n[1] = "null"

PrototypeAST(name, retType, argNames, argTypes) ==
  [name |-> name, retType |-> retType, argNames |-> argNames, argTypes |-> argTypes]

\* A parse result: the node (NullAST on error), the position of CurTok
\* afterwards and what was written to stderr.
Ok(n, p) == [ok |-> TRUE, n |-> n, p |-> p, e |-> <<>>]
OkE(n, p, e) == [ok |-> TRUE, n |-> n, p |-> p, e |-> e]
Fail(p, e) == [ok |-> FALSE, n |-> NullAST, p |-> p, e |-> e]

UnaryOps == {"&", "*"}

\* A table in which + binds tighter than *.
BinopPrecedenceSwapped(c) ==
  CASE c = "=" -> 2
    [] c = "!" -> 10
    [] c = "<" -> 10
    [] c = "+" -> 40
    [] c = "-" -> 20
    [] c = "*" -> 20
    [] OTHER -> 0

\* BinopPrecedence as InitParser fills it; operator[] gives 0 for any other
\* character.
BinopPrecedence(c) ==
  CASE c = "=" -> 2
    [] c = "!" -> 10
    [] c = "<" -> 10
    [] c = "+" -> 20
    [] c = "-" -> 20
    [] c = "*" -> 40
    [] OTHER -> 0

GetTokPrecedence(tok) ==
  IF tok[1] # "ch" THEN -1
  ELSE IF BinopPrecedence(tok[2]) <= 0 THEN -1 ELSE BinopPrecedence(tok[2])

ParseNumberExpr(ts, p, fp) ==
  Ok(<<"num", IF fp THEN "fp" ELSE "int", "", CurTok(ts, p)[3]>>,
     getNextToken(ts, p))

ParseStringLiteral(ts, p) ==
  Ok(<<"num", "str", CurTok(ts, p)[2], 0>>, getNextToken(ts, p))

ParseDataType(ts, p) ==
  LET t == CurTok(ts, p) IN
  IF t[1] # "id" THEN Fail(p, <<"expected type but found token">>)
  ELSE IF t[2] = "double" THEN Ok(<<"type", "double">>, p)
  ELSE IF t[2] = "byte" THEN Ok(<<"type", "byte">>, p)
  ELSE IF t[2] = "byte_ptr" THEN Ok(<<"type", "byte_ptr">>, p)
  ELSE Fail(p, <<"didn't recognize type">>)

\* Let([x \in {e} |-> body]) is body with x bound to the value of e: the
\* result of a call is computed once and then used by name, as the local
\* variable that holds it in the source.
Let(f) == CHOOSE y \in {g[CHOOSE x \in DOMAIN g : TRUE] : g \in {f}} : TRUE

RECURSIVE ParsePrimary(_, _)
RECURSIVE ParseExpression(_, _)
RECURSIVE ParseBinOpRHS(_, _, _, _)
RECURSIVE ParseStmt(_, _)
RECURSIVE ParseArgs(_, _, _, _)
RECURSIVE ParseBlockBody(_, _, _)
RECURSIVE ParseProtoArgs(_, _, _, _)

ParseParenExpr(ts, p) ==
  Let([r \in {ParseExpression(ts, getNextToken(ts, p))} |->
    IF ~r.ok THEN r
    ELSE IF CurTok(ts, r.p) # Ch(")") THEN Fail(r.p, <<"missing )">>)
    ELSE Ok(r.n, getNextToken(ts, r.p))])

\* The argument loop of ParseIdentifierExpr.
ParseArgs(ts, p, first, args) ==
  IF CurTok(ts, p) = Ch(")") THEN Ok(args, getNextToken(ts, p))
  ELSE IF ~first /\ CurTok(ts, p) # Ch(",")
    THEN Fail(p, <<"Expected ')' or ',' in argument list">>)
  ELSE Let([a \in {ParseExpression(ts, IF first THEN p ELSE getNextToken(ts, p))} |->
         IF ~a.ok THEN a ELSE ParseArgs(ts, a.p, FALSE, Append(args, a.n))])

ParseIdentifierExpr(ts, p) ==
  LET id == CurTok(ts, p)[2]
      p1 == getNextToken(ts, p)
  IN IF CurTok(ts, p1) # Ch("(") THEN Ok(<<"var", id>>, p1)
     ELSE Let([a \in {ParseArgs(ts, getNextToken(ts, p1), TRUE, <<>>)} |->
            IF ~a.ok THEN a ELSE Ok(<<"call", id, a.n>>, a.p)])

\* The else branch of ParseIfStmt; the test after it is again of `then`, so
\* a failed else branch is kept as a null statement.
ParseElse(ts, cond, then) ==
  Let([elseStmt \in {ParseStmt(ts, getNextToken(ts, then.p))} |->
    OkE(<<"if", cond.n, then.n, elseStmt.n>>, elseStmt.p, then.e \o elseStmt.e)])

ParseIfStmt(ts, p) ==
  Let([cond \in {ParseExpression(ts, getNextToken(ts, p))} |->
    IF ~cond.ok THEN cond
    ELSE IF CurTok(ts, cond.p) # K("then") THEN Fail(cond.p, <<"expected then">>)
    ELSE Let([then \in {ParseStmt(ts, getNextToken(ts, cond.p))} |->
      IF ~then.ok THEN then
      ELSE IF CurTok(ts, then.p) # K("else") THEN Fail(then.p, <<"expected else">>)
      ELSE ParseElse(ts, cond, then)])])

\* ParseForStmt from the optional step on.
ParseForStep(ts, varName, start, end) ==
  Let([step \in {IF CurTok(ts, end.p) = Ch(",")
                   THEN ParseExpression(ts, getNextToken(ts, end.p))
                   ELSE Ok(<<"num", "fp", "", 1>>, end.p)} |->
    IF ~step.ok THEN step
    ELSE Let([body \in {ParseStmt(ts, step.p)} |->
      IF ~body.ok THEN body
      ELSE OkE(<<"for", varName, start.n, end.n, step.n, body.n>>,
               body.p, body.e)])])

ParseForStmt(ts, p) ==
  LET p1 == getNextToken(ts, p)
      varName == CurTok(ts, p1)[2]
      p2 == getNextToken(ts, p1) IN
  IF CurTok(ts, p1)[1] # "id" THEN Fail(p1, <<"expected identifier after for">>)
  ELSE IF CurTok(ts, p2) # Ch("=") THEN Fail(p2, <<"expected '=' after for">>)
  ELSE Let([start \in {ParseExpression(ts, getNextToken(ts, p2))} |->
    IF ~start.ok THEN start
    ELSE IF CurTok(ts, start.p) # Ch(",")
      THEN Fail(start.p, <<"expected ',' after for start value">>)
    ELSE Let([end \in {ParseExpression(ts, getNextToken(ts, start.p))} |->
      IF ~end.ok THEN end ELSE ParseForStep(ts, varName, start, end)])])

ParseReturnStmt(ts, p) ==
  Let([expr \in {ParseExpression(ts, getNextToken(ts, p))} |->
    IF ~expr.ok THEN expr ELSE Ok(<<"ret", expr.n>>, expr.p)])

\* The statement loop of ParseBlockStmt; acc.e collects what the statements
\* already parsed wrote to stderr.
ParseBlockBody(ts, p, acc) ==
  LET p1 == IF CurTok(ts, p) = K(";") THEN getNextToken(ts, p) ELSE p IN
  IF CurTok(ts, p1) = K("}")
    THEN OkE(<<"block", acc.stmts>>, getNextToken(ts, p1), acc.e)
  ELSE Let([stmt \in {ParseStmt(ts, p1)} |->
         IF ~stmt.ok THEN Fail(stmt.p, acc.e \o stmt.e)
         ELSE ParseBlockBody(ts, stmt.p,
                [stmts |-> Append(acc.stmts, stmt.n), e |-> acc.e \o stmt.e])])

ParseBlockStmt(ts, p) ==
  ParseBlockBody(ts, getNextToken(ts, p), [stmts |-> <<>>, e |-> <<>>])

ParseVariableDeclStmt(ts, p) ==
  LET p1 == getNextToken(ts, p)
      name == CurTok(ts, p1)[2]
      p2 == getNextToken(ts, p1)
      p3 == getNextToken(ts, p2) IN
  IF CurTok(ts, p1)[1] # "id" THEN Fail(p1, <<"expected identifier after var">>)
  ELSE Let([type \in {ParseDataType(ts, p2)} |->
    IF ~type.ok THEN Fail(p2, type.e \o <<"failed to parse type">>)
    ELSE IF CurTok(ts, p3) = Ch("=")
      THEN Let([val \in {ParseExpression(ts, getNextToken(ts, p3))} |->
             IF ~val.ok THEN val
             ELSE Ok(<<"vardecl", name, type.n[2], val.n>>, val.p)])
      ELSE Ok(<<"vardecl", name, type.n[2], NullAST>>, p3)])

UnknownToken == <<"unknown token when expecting an expression",
                  "logError: unknown token when expecting an expression">>

ParsePrimary(ts, p) ==
  LET t == CurTok(ts, p) IN
  CASE t[1] = "id" -> ParseIdentifierExpr(ts, p)
    [] t[1] = "fp" -> ParseNumberExpr(ts, p, TRUE)
    [] t[1] = "int" -> ParseNumberExpr(ts, p, FALSE)
    [] t[1] = "str" -> ParseStringLiteral(ts, p)
    [] t = Ch("(") -> ParseParenExpr(ts, p)
    [] OTHER ->
       IF t[1] = "ch" /\ t[2] \in UnaryOps
         THEN Let([operand \in {ParsePrimary(ts, getNextToken(ts, p))} |->
                IF ~operand.ok THEN operand
                ELSE Ok(<<"un", t[2], operand.n>>, operand.p)])
         ELSE Fail(p, UnknownToken)

ParseStmt(ts, p) ==
  LET t == CurTok(ts, p) IN
  CASE t[1] \in {"id", "fp", "int"} \/ t = Ch("(") -> ParseExpression(ts, p)
    [] t[1] = "if" -> ParseIfStmt(ts, p)
    [] t[1] = "for" -> ParseForStmt(ts, p)
    [] t[1] = "{" -> ParseBlockStmt(ts, p)
    [] t[1] = "var" -> ParseVariableDeclStmt(ts, p)
    [] t[1] = "return" -> ParseReturnStmt(ts, p)
    [] OTHER -> Fail(p, UnknownToken)

ParseExpression(ts, p) ==
  Let([lhs \in {ParsePrimary(ts, p)} |->
    IF ~lhs.ok THEN lhs ELSE ParseBinOpRHS(ts, lhs.p, 0, lhs.n)])

\* A binoprhs in which an operator of equal precedence after the right
\* side takes the right side as its left side.
ParseBinOpRHSRightAssoc(ts, p, exprPrec, lhs) ==
  LET tokPrec == GetTokPrecedence(CurTok(ts, p))
      binOp == CurTok(ts, p)[2] IN
  IF tokPrec < exprPrec THEN Ok(lhs, p)
  ELSE Let([rhs0 \in {ParsePrimary(ts, getNextToken(ts, p))} |->
    IF ~rhs0.ok THEN rhs0
    ELSE Let([rhs \in {IF tokPrec <= GetTokPrecedence(CurTok(ts, rhs0.p))
                         THEN ParseBinOpRHS(ts, rhs0.p, tokPrec, rhs0.n)
                         ELSE rhs0} |->
      IF ~rhs.ok THEN rhs
      ELSE ParseBinOpRHS(ts, rhs.p, exprPrec, <<"bin", binOp, lhs, rhs.n>>)])])

ParseBinOpRHS(ts, p, exprPrec, lhs) ==
  LET tokPrec == GetTokPrecedence(CurTok(ts, p))
      binOp == CurTok(ts, p)[2] IN
  IF tokPrec < exprPrec THEN Ok(lhs, p)
  ELSE Let([rhs0 \in {ParsePrimary(ts, getNextToken(ts, p))} |->
    IF ~rhs0.ok THEN rhs0
    ELSE Let([rhs \in {IF tokPrec < GetTokPrecedence(CurTok(ts, rhs0.p))
                         THEN ParseBinOpRHS(ts, rhs0.p, tokPrec + 1, rhs0.n)
                         ELSE rhs0} |->
      IF ~rhs.ok THEN rhs
      ELSE ParseBinOpRHS(ts, rhs.p, exprPrec, <<"bin", binOp, lhs, rhs.n>>)])])

\* The argument loop of ParsePrototype, entered with CurTok on '(' or ','.
\* Returns the position of the token that ended the list.
ParseProtoArgs(ts, p, argNames, argTypes) ==
  LET pa == getNextToken(ts, p)
      type == ParseDataType(ts, pa)
      pb == getNextToken(ts, pa)
      pc == getNextToken(ts, pb) IN
  IF CurTok(ts, pa)[1] # "id"
    THEN Ok(PrototypeAST("", "", argNames, argTypes), pa)
  ELSE IF ~type.ok THEN type
  ELSE IF CurTok(ts, pb)[1] # "id" THEN Fail(pb, <<"expected arg name">>)
  ELSE IF CurTok(ts, pc) # Ch(",")
    THEN Ok(PrototypeAST("", "", Append(argNames, CurTok(ts, pb)[2]),
                         Append(argTypes, type.n[2])), pc)
    ELSE ParseProtoArgs(ts, pc, Append(argNames, CurTok(ts, pb)[2]),
                        Append(argTypes, type.n[2]))

ParsePrototype(ts, p) ==
  LET type == ParseDataType(ts, p)
      p1 == getNextToken(ts, p)
      fnName == CurTok(ts, p1)[2]
      p2 == getNextToken(ts, p1) IN
  IF CurTok(ts, p)[1] # "id" THEN Fail(p, <<"Expected type in prototype">>)
  ELSE IF ~type.ok THEN type
  ELSE IF CurTok(ts, p1)[1] # "id"
    THEN Fail(p1, <<"Expected function name in prototype">>)
  ELSE IF CurTok(ts, p2) # Ch("(") THEN Fail(p2, <<"Expected '(' in prototype">>)
  ELSE Let([args \in {ParseProtoArgs(ts, p2, <<>>, <<>>)} |->
    IF ~args.ok THEN args
    ELSE IF CurTok(ts, args.p) # Ch(")")
      THEN Fail(args.p, <<"Expected ')' in prototype">>)
    ELSE Ok(PrototypeAST(fnName, type.n[2], args.n.argNames, args.n.argTypes),
            getNextToken(ts, args.p))])

ParseDefinition(ts, p) ==
  Let([proto \in {ParsePrototype(ts, getNextToken(ts, p))} |->
    IF ~proto.ok THEN proto
    ELSE Let([e \in {ParseStmt(ts, proto.p)} |->
           IF ~e.ok THEN e ELSE OkE(<<"function", proto.n, e.n>>, e.p, e.e)])])

ParseExtern(ts, p) == ParsePrototype(ts, getNextToken(ts, p))

ParseTopLevelExpr(ts, p) ==
  Let([e \in {ParseExpression(ts, p)} |->
    IF ~e.ok THEN e
    ELSE Ok(<<"function", PrototypeAST("__anon_expr", "byte", <<>>, <<>>),
              <<"ret", e.n>>>>, e.p)])

(***************************************************************************)
(* IR.  LLVM types are strings.  An operand (llvm::Value) is               *)
(* [k, ty, id, n, val] with k one of "null" (nullptr), "const" (val is its *)
(* value; n the text of a string constant), "inst" (the result of the      *)
(* instruction numbered id) and "arg" (parameter id, named n).  An         *)
(* instruction is [op, ty, id, x, y, n, args, t1, t2]: x and y its         *)
(* operands, id the number of its result, t1 and t2 its branch targets.    *)
(* A function of a module is a declaration while its block list is empty.  *)
(***************************************************************************)
getLLVMType(type) ==
  CASE type = "double" -> "double"
    [] type = "byte" -> "i8"
    [] type = "bool" -> "i1"
    [] type = "byte_ptr" -> "i8*"

PtrTo(ty) == ty \o "*"

\* The type a load through a pointer of type ty yields ("" for a non-pointer).
ElemTy(ty) ==
  CASE ty = "i8*" -> "i8"
    [] ty = "i8**" -> "i8*"
    [] ty = "double*" -> "double"
    [] ty = "i1*" -> "i1"
    [] OTHER -> ""

IntTys == {"i8", "i1"}
PtrTys == {"i8*", "i8**", "double*", "i1*"}

NullV == [k |-> "null", ty |-> "", id |-> 0, n |-> "", val |-> 0]
ConstV(ty, val) == [k |-> "const", ty |-> ty, id |-> 0, n |-> "", val |-> val]
InstV(ty, id) == [k |-> "inst", ty |-> ty, id |-> id, n |-> "", val |-> 0]
ArgV(ty, i, name) == [k |-> "arg", ty |-> ty, id |-> i, n |-> name, val |-> 0]

\* The address of the first byte of a string constant (a constant GEP).
StrV(text) == [k |-> "const", ty |-> "i8*", id |-> 0, n |-> text, val |-> 1]

getZeroVal(type) == ConstV(getLLVMType(type), 0)

Instr(op, ty, id, x, y, n, args, t1, t2) ==
  [op |-> op, ty |-> ty, id |-> id, x |-> x, y |-> y, n |-> n, args |-> args,
   t1 |-> t1, t2 |-> t2]

Terminators == {"ret", "br", "condbr"}

Variable(type, llvmType, allocaInst) ==
  [type |-> type, llvmType |-> llvmType, allocaInst |-> allocaInst]

\* The operand that is the address of a variable's stack slot.
SlotOf(var) == InstV(PtrTo(var.llvmType), var.allocaInst)

\* std::map::insert keeps the entry already there.
NamedInsert(named, name, var) ==
  IF name \in DOMAIN named THEN named ELSE named @@ (name :> var)

\* An erase that leaves the entry in the table.
NamedEraseNot(named, name) == named

NamedErase(named, name) == [k \in DOMAIN named \ {name} |-> named[k]]

NoNamedValues == [k \in {} |-> Variable("", "", 0)]

\* A module as ResetModule opens it.
Module(id) == [id |-> id, funcs |-> <<>>, globals |-> 0]

\* Module::getFunction: the index of the function called name, 0 if none.
\* A function LLVM had to rename on creation (uniq > 0) has another name.
getFunction(mod, name) ==
  LET S == {i \in 1..Len(mod.funcs) :
              mod.funcs[i].name = name /\ mod.funcs[i].uniq = 0}
  IN IF S = {} THEN 0 ELSE CHOOSE i \in S : TRUE

Digit(k) == CASE k = 1 -> "1" [] k = 2 -> "2" [] k = 3 -> "3" [] OTHER -> "4"

\* Argument::setName: a name already taken in the function gets a suffix.
RECURSIVE UniqueArgNames(_, _, _)
UniqueArgNames(names, done, clashes) ==
  IF names = <<>> THEN done
  ELSE IF \E i \in 1..Len(done) : done[i] = Head(names)
    THEN UniqueArgNames(Tail(names),
                        Append(done, Head(names) \o Digit(clashes + 1)),
                        clashes + 1)
    ELSE UniqueArgNames(Tail(names), Append(done, Head(names)), clashes)

\* PrototypeAST::codegen: Function::Create adds a declaration to the
\* module; returns the module and the index of the new function.
PrototypeAST_codegen(proto, mod) ==
  LET same == {i \in 1..Len(mod.funcs) : mod.funcs[i].name = proto.name}
      f == [name |-> proto.name,
            uniq |-> IF getFunction(mod, proto.name) = 0 THEN 0
                     ELSE 1 + Cardinality(same),
            retType |-> getLLVMType(proto.retType),
            argNames |-> UniqueArgNames(proto.argNames, <<>>, 0),
            argTypes |-> [i \in 1..Len(proto.argNames) |->
                            getLLVMType(proto.argTypes[i])],
            blocks |-> <<>>]
  IN [mod |-> [mod EXCEPT !.funcs = Append(@, f)], f |-> Len(mod.funcs) + 1]

\* it->second->codegen() of resolveFunction: the declaration made from the
\* registry entry joins the current module.
DeclareFromRegistry(st, name) ==
  [st |-> [st EXCEPT !.mod = PrototypeAST_codegen(st.protos[name], st.mod).mod],
   f |-> Len(st.mod.funcs) + 1]

\* resolveFunction without the lookup in the current module.
resolveFunctionNoLookup(st, name) ==
  IF name \in DOMAIN st.protos THEN DeclareFromRegistry(st, name)
  ELSE [st |-> st, f |-> 0]

\* resolveFunction on the codegen state st.
resolveFunction(st, name) ==
  IF getFunction(st.mod, name) # 0
    THEN [st |-> st, f |-> getFunction(st.mod, name)]
  ELSE IF name \in DOMAIN st.protos THEN DeclareFromRegistry(st, name)
  ELSE [st |-> st, f |-> 0]

(***************************************************************************)
(* The codegen state: TheModule (mod), FunctionProtos (protos), the        *)
(* function being generated (fn, an index into mod.funcs) with its blocks  *)
(* in creation order, the builder's insertion block (ip), NamedValues      *)
(* (named), the next value number, stderr (log), and whether the process   *)
(* has crashed.                                                            *)
(***************************************************************************)
logErrorV(st, msg) == [st EXCEPT !.log = Append(@, msg)]

Emit(st, ins) == [st EXCEPT !.blocks[st.ip].instrs = Append(@, ins)]

Block(label, attached) == [label |-> label, instrs |-> <<>>, attached |-> attached]

\* BasicBlock::Create; attached says whether it was given a parent function.
CreateBlock(st, label, attached) ==
  [st EXCEPT !.blocks = Append(@, Block(label, attached))]

\* createEntryBlockAlloca: the alloca, numbered st.nextId, goes to the
\* front of the entry block.
createEntryBlockAlloca(st, varName, type) ==
  [st EXCEPT !.blocks[1].instrs =
               <<Instr("alloca", type, st.nextId, NullV, NullV, varName,
                       <<>>, 0, 0)>> \o @,
             !.nextId = @ + 1]

\* Builder.CreateStore of the value v through the pointer ptr.
CreateStore(st, v, ptr) ==
  Emit(st, Instr("store", "", 0, v, ptr, "", <<>>, 0, 0))

\* Builder.CreateLoad through ptr; the result has number st.nextId.
CreateLoad(st, ptr, name) ==
  [Emit(st, Instr("load", ElemTy(ptr.ty), st.nextId, ptr, NullV, name,
                  <<>>, 0, 0))
     EXCEPT !.nextId = @ + 1]

\* Builder.CreateBr / CreateCondBr / CreateRet.
CreateBr(st, dest) ==
  Emit(st, Instr("br", "", 0, NullV, NullV, "", <<>>, dest, 0))

CreateCondBr(st, cond, ifTrue, ifFalse) ==
  Emit(st, Instr("condbr", "", 0, cond, NullV, "", <<>>, ifTrue, ifFalse))

CreateRet(st, v) == Emit(st, Instr("ret", "", 0, v, NullV, "", <<>>, 0, 0))

\* The bit width of an integer type, as a modulus.
Modulus(ty) == IF ty = "i1" THEN 2 ELSE 256

\* The largest double of the model: adding to it leaves it unchanged, as
\* adding 1.0 leaves a double of 2^53 or more unchanged.
MaxDouble == 3

fadd(a, b) == IF a + b > MaxDouble THEN MaxDouble ELSE a + b

\* What a two-operand instruction computes of the operand values a and b.
Compute(op, ty, a, b) ==
  CASE op = "add" -> (a + b) % Modulus(ty)
    [] op = "sub" -> (a - b) % Modulus(ty)
    [] op = "mul" -> (a * b) % Modulus(ty)
    [] op = "fadd" -> fadd(a, b)
    [] op = "icmp_ult" -> IF a < b THEN 1 ELSE 0
    [] op \in {"icmp_ne", "fcmp_one"} -> IF a # b THEN 1 ELSE 0

\* A two-operand instruction; IRBuilder folds it when both operands are
\* constants (of the types the operator takes) and emits nothing then.
CreateBinary(st, op, l, r, resTy, okTys) ==
  IF l.k = "const" /\ r.k = "const" /\ l.ty = r.ty /\ l.ty \in okTys
    THEN [st |-> st, v |-> ConstV(resTy, Compute(op, l.ty, l.val, r.val))]
    ELSE [st |-> [Emit(st, Instr(op, resTy, st.nextId, l, r, "", <<>>, 0, 0))
                    EXCEPT !.nextId = @ + 1],
          v |-> InstV(resTy, st.nextId)]

RECURSIVE codegenExpr(_, _, _)
RECURSIVE codegen(_, _, _)
RECURSIVE CallArgs(_, _, _, _)
RECURSIVE BlockStmts(_, _, _)

\* APInt(8, ival) keeps the low eight bits of the literal.
NumberExprAST_codegenExpr(e, st) ==
  CASE e[2] = "fp" -> [st |-> st, v |-> ConstV("double", e[4])]
    [] e[2] = "int" -> [st |-> st, v |-> ConstV("i8", e[4] % 256)]
    [] OTHER -> [st |-> [st EXCEPT !.mod.globals = @ + 1], v |-> StrV(e[3])]

VariableExprAST_codegenExpr(e, st) ==
  IF e[2] \notin DOMAIN st.named
    THEN [st |-> logErrorV(st, "unknown variable"), v |-> NullV]
    ELSE [st |-> CreateLoad(st, SlotOf(st.named[e[2]]), e[2]),
          v |-> InstV(st.named[e[2]].llvmType, st.nextId)]

\* case '*' of UnaryExprAST::codegenExpr on the variable var.
Dereference(var, st, ub) ==
  IF var.type # "byte_ptr"
    THEN [st |-> logErrorV(st, "can only dereference pointers"), v |-> NullV]
  ELSE IF ElemTy(var.llvmType) = ""
    \* a load through a value whose IR type is no pointer: undefined
    THEN [st |-> [st EXCEPT !.crashed = (ub = "crash")], v |-> NullV]
  ELSE [st |-> CreateLoad(CreateLoad(st, SlotOf(var), "load_ptr"),
                          InstV(var.llvmType, st.nextId), "deref"),
        v |-> InstV(ElemTy(var.llvmType), st.nextId + 1)]

UnaryExprAST_codegenExpr(e, st, ub) ==
  LET operand == e[3] IN
  IF operand[1] # "var"
    THEN [st |-> logErrorV(st, IF e[2] = "&"
                   THEN "address of can only be applied to variables"
                   ELSE "dereferencing can only be applied to variables"),
          v |-> NullV]
  ELSE IF operand[2] \notin DOMAIN st.named
    THEN [st |-> logErrorV(st, "unknown variable"), v |-> NullV]
  ELSE IF e[2] = "&" THEN [st |-> st, v |-> SlotOf(st.named[operand[2]])]
  ELSE Dereference(st.named[operand[2]], st, ub)

\* op == '=' of BinaryExprAST::codegenExpr, r the result of the right side.
Assign(e, r, ub) ==
  IF r.st.crashed THEN r
  ELSE IF e[3][2] \notin DOMAIN r.st.named
    THEN [st |-> logErrorV(r.st, "unknown variable"), v |-> NullV]
  ELSE IF r.v.k = "null" /\ ub = "crash"
    \* CreateStore(nullptr, ...) dereferences the null value
    THEN [st |-> [r.st EXCEPT !.crashed = TRUE], v |-> NullV]
  ELSE [st |-> CreateStore(r.st, r.v, SlotOf(r.st.named[e[3][2]])), v |-> r.v]

\* The switch of BinaryExprAST::codegenExpr on the operand values l and r,
\* r.st the state after both.
BinaryOp(e, l, r) ==
  IF r.st.crashed \/ l.v.k = "null" \/ r.v.k = "null"
    THEN [st |-> r.st, v |-> NullV]
  ELSE CASE e[2] = "+" -> CreateBinary(r.st, "add", l.v, r.v, l.v.ty, IntTys)
         [] e[2] = "-" -> CreateBinary(r.st, "sub", l.v, r.v, l.v.ty, IntTys)
         [] e[2] = "*" -> CreateBinary(r.st, "mul", l.v, r.v, l.v.ty, IntTys)
         [] e[2] = "<" ->
            \* the compare is emitted, then control falls into default
            [st |-> logErrorV(
               CreateBinary(r.st, "icmp_ult", l.v, r.v, "i1",
                            IntTys \cup PtrTys).st,
               "invalid bin op"),
             v |-> NullV]
         [] OTHER -> [st |-> logErrorV(r.st, "invalid bin op"), v |-> NullV]

BinaryExprAST_codegenExpr(e, st, ub) ==
  IF e[2] = "="
    THEN IF e[3][1] # "var"
      THEN [st |-> logErrorV(st, "destination of assignment must be a variable"),
            v |-> NullV]
      ELSE Let([r \in {codegenExpr(e[4], st, ub)} |-> Assign(e, r, ub)])
    ELSE Let([l \in {codegenExpr(e[3], st, ub)} |->
           Let([r \in {codegenExpr(e[4], l.st, ub)} |-> BinaryOp(e, l, r)])])

\* The argument loop of CallExprAST::codegenExpr: args still to evaluate,
\* argsV the values so far.  v is NullV when an argument failed.
CallArgs(args, argsV, st, ub) ==
  IF args = <<>> THEN [st |-> st, v |-> ConstV("", 0), argsV |-> argsV]
  ELSE Let([a \in {codegenExpr(Head(args), st, ub)} |->
         IF a.v.k = "null" THEN [st |-> a.st, v |-> NullV, argsV |-> argsV]
         ELSE CallArgs(Tail(args), Append(argsV, a.v), a.st, ub)])

\* CallExprAST::codegenExpr from the argument loop on: calleeFun is
\* function f of st.mod.
CreateCall(e, f, st, ub) ==
  Let([a \in {CallArgs(e[3], <<>>, st, ub)} |->
    IF a.v.k = "null" THEN [st |-> a.st, v |-> NullV]
    ELSE [st |-> [Emit(a.st, Instr("call", st.mod.funcs[f].retType, a.st.nextId,
                                   NullV, NullV, st.mod.funcs[f].name, a.argsV,
                                   st.mod.funcs[f].uniq, 0))
                    EXCEPT !.nextId = @ + 1],
          v |-> InstV(st.mod.funcs[f].retType, a.st.nextId)]])

\* The call codegen without the check of the argument count.
CallExprNoArityCheck(e, st, ub) ==
  Let([r \in {resolveFunction(st, e[2])} |->
    IF r.f = 0
      THEN [st |-> logErrorV(st, "unknown function referenced"), v |-> NullV]
    ELSE CreateCall(e, r.f, r.st, ub)])

CallExprAST_codegenExpr(e, st, ub) ==
  Let([r \in {resolveFunction(st, e[2])} |->
    IF r.f = 0
      THEN [st |-> logErrorV(st, "unknown function referenced"), v |-> NullV]
    ELSE IF Len(r.st.mod.funcs[r.f].argTypes) # Len(e[3])
      THEN [st |-> logErrorV(r.st, "incorrect # arguments passed"), v |-> NullV]
    ELSE CreateCall(e, r.f, r.st, ub)])

codegenExpr(e, st, ub) ==
  IF st.crashed THEN [st |-> st, v |-> NullV]
  ELSE CASE e[1] = "num" -> NumberExprAST_codegenExpr(e, st)
         [] e[1] = "var" -> VariableExprAST_codegenExpr(e, st)
         [] e[1] = "un" -> UnaryExprAST_codegenExpr(e, st, ub)
         [] e[1] = "bin" -> BinaryExprAST_codegenExpr(e, st, ub)
         [] e[1] = "call" -> CallExprAST_codegenExpr(e, st, ub)

CodegenRes(st, success, ret) == [st |-> st, success |-> success, ret |-> ret]

\* ExprAST::codegen: an expression used as a statement.
ExprAST_codegen(e, st, ub) ==
  Let([val \in {codegenExpr(e, st, ub)} |->
    CodegenRes(val.st, val.v.k # "null", FALSE)])

\* An else branch that is followed by a branch to the merge block also
\* when it returned.
IfElseAlwaysBranch(s, thenRes, elseBlock, ub) ==
  Let([elseRes \in {codegen(s[4],
                      [(IF thenRes.ret THEN thenRes.st
                        ELSE CreateBr(thenRes.st, elseBlock + 1))
                         EXCEPT !.blocks[elseBlock].attached = TRUE,
                                !.ip = elseBlock],
                      ub)} |->
    IF ~elseRes.success THEN elseRes
    ELSE CodegenRes([CreateBr(elseRes.st, elseBlock + 1)
                       EXCEPT !.blocks[elseBlock + 1].attached = TRUE,
                              !.ip = elseBlock + 1],
                    TRUE, FALSE)])

\* IfStmtAST::codegen from the else block on: thenRes is the result of
\* the then branch, emitted since the state after the conditional branch.
IfElse(s, thenRes, elseBlock, ub) ==
  Let([elseRes \in {codegen(s[4],
                      [(IF thenRes.ret THEN thenRes.st
                        ELSE CreateBr(thenRes.st, elseBlock + 1))
                         EXCEPT !.blocks[elseBlock].attached = TRUE,
                                !.ip = elseBlock],
                      ub)} |->
    IF ~elseRes.success THEN elseRes
    ELSE CodegenRes([(IF elseRes.ret THEN elseRes.st
                      ELSE CreateBr(elseRes.st, elseBlock + 1))
                       EXCEPT !.blocks[elseBlock + 1].attached = TRUE,
                              !.ip = elseBlock + 1],
                    TRUE, FALSE)])

\* IfStmtAST::codegen from the creation of the three blocks on: cmp is the
\* result of the compare with zero.
IfBlocks(s, cmp, ub) ==
  LET thenBlock == Len(cmp.st.blocks) + 1
      elseBlock == thenBlock + 1
      blocks == CreateBlock(CreateBlock(CreateBlock(cmp.st, "then", TRUE),
                                        "if", FALSE), "ifcont", FALSE)
  IN Let([thenRes \in {codegen(s[3],
                         [CreateCondBr(blocks, cmp.v, thenBlock, elseBlock)
                            EXCEPT !.ip = thenBlock],
                         ub)} |->
       IF ~thenRes.success THEN thenRes ELSE IfElse(s, thenRes, elseBlock, ub)])

IfStmtAST_codegen(s, st, ub) ==
  Let([condCode \in {codegenExpr(s[2], st, ub)} |->
    IF condCode.v.k = "null" THEN CodegenRes(condCode.st, FALSE, FALSE)
    ELSE Let([cmp \in {CreateBinary(condCode.st, "icmp_ne", condCode.v,
                                    ConstV(condCode.v.ty, 0), "i1",
                                    IntTys \cup PtrTys)} |->
           IfBlocks(s, cmp, ub)])])

ReturnStmtAST_codegen(s, st, ub) ==
  Let([retVal \in {codegenExpr(s[2], st, ub)} |->
    IF retVal.v.k = "null" THEN CodegenRes(retVal.st, FALSE, FALSE)
    ELSE CodegenRes(CreateRet(retVal.st, retVal.v), TRUE, TRUE)])

\* ForStmtAST::codegen, the end of an iteration (taken when the body did
\* not return): the step, the increment of the loop variable and the end
\* condition.  cond is the compare with 0.0, NullV when codegen failed.
ForStep(s, st, alloca, ub) ==
  Let([stepVal \in {codegenExpr(s[5], st, ub)} |->
    IF stepVal.v.k = "null" THEN [st |-> stepVal.st, cond |-> NullV]
    ELSE Let([nextLoopVar \in {CreateBinary(CreateLoad(stepVal.st, alloca, ""),
                                 "fadd", InstV("double", stepVal.st.nextId),
                                 stepVal.v, "double", {})} |->
      Let([endCond \in {codegenExpr(s[4],
                          CreateStore(nextLoopVar.st, nextLoopVar.v, alloca),
                          ub)} |->
        IF endCond.v.k = "null" THEN [st |-> endCond.st, cond |-> NullV]
        ELSE Let([loopcond \in {CreateBinary(endCond.st, "fcmp_one", endCond.v,
                                  ConstV("double", 0), "i1", {"double"})} |->
               [st |-> loopcond.st, cond |-> loopcond.v]])])])])

\* ForStmtAST::codegen from the after-loop block on; endCond is NullV when
\* the body returned.
ForAfterLoop(s, st, endCond, loopBB, hadOld, oldLoopVar) ==
  LET afterLoopBB == Len(st.blocks) + 1
      after == CreateBlock(st, "afterloop", TRUE)
  IN CodegenRes(
       [(IF endCond.k = "null" THEN after
         ELSE CreateCondBr(after, endCond, loopBB, afterLoopBB))
          EXCEPT !.ip = afterLoopBB,
                 !.named = IF hadOld THEN NamedInsert(@, s[2], oldLoopVar)
                           ELSE NamedErase(@, s[2])],
       TRUE, FALSE)

\* A loop whose step and end condition follow the body also when the body
\* returned.
ForLoopAlwaysStep(s, st, alloca, ub) ==
  LET loopBB == Len(st.blocks) + 1
      hadOld == s[2] \in DOMAIN st.named
      oldLoopVar == IF hadOld THEN st.named[s[2]] ELSE Variable("", "", 0)
  IN Let([bodyRes \in {codegen(s[6],
                         [CreateBr(CreateBlock(st, "loop", TRUE), loopBB)
                            EXCEPT !.ip = loopBB,
                                   !.named = NamedInsert(@, s[2],
                                     Variable("double", "double", alloca.id))],
                         ub)} |->
       IF ~bodyRes.success THEN bodyRes
       ELSE Let([step \in {ForStep(s, bodyRes.st, alloca, ub)} |->
              IF step.cond.k = "null" THEN CodegenRes(step.st, FALSE, FALSE)
              ELSE ForAfterLoop(s, step.st, step.cond, loopBB, hadOld,
                                oldLoopVar)])])

\* ForStmtAST::codegen from the loop block on; st is the state after the
\* store of the start value.
ForLoop(s, st, alloca, ub) ==
  LET loopBB == Len(st.blocks) + 1
      hadOld == s[2] \in DOMAIN st.named
      oldLoopVar == IF hadOld THEN st.named[s[2]] ELSE Variable("", "", 0)
  IN Let([bodyRes \in {codegen(s[6],
                         [CreateBr(CreateBlock(st, "loop", TRUE), loopBB)
                            EXCEPT !.ip = loopBB,
                                   !.named = NamedInsert(@, s[2],
                                     Variable("double", "double", alloca.id))],
                         ub)} |->
       IF ~bodyRes.success THEN bodyRes
       ELSE IF bodyRes.ret
         THEN ForAfterLoop(s, bodyRes.st, NullV, loopBB, hadOld, oldLoopVar)
       ELSE Let([step \in {ForStep(s, bodyRes.st, alloca, ub)} |->
              IF step.cond.k = "null" THEN CodegenRes(step.st, FALSE, FALSE)
              ELSE ForAfterLoop(s, step.st, step.cond, loopBB, hadOld,
                                oldLoopVar)])])

ForStmtAST_codegen(s, st, ub) ==
  Let([startVal \in {codegenExpr(s[3],
                       createEntryBlockAlloca(st, s[2], "double"), ub)} |->
    IF startVal.v.k = "null" THEN CodegenRes(startVal.st, FALSE, FALSE)
    ELSE ForLoop(s, CreateStore(startVal.st, startVal.v,
                                InstV("double*", st.nextId)),
                 InstV("double*", st.nextId), ub)])

\* A statement loop that goes on after a statement that returned.
BlockStmtsOn(body, st, ub) ==
  IF body = <<>> THEN CodegenRes(st, TRUE, FALSE)
  ELSE Let([stmtRes \in {codegen(Head(body), st, ub)} |->
         IF ~stmtRes.success THEN stmtRes
         ELSE Let([rest \in {BlockStmts(Tail(body), stmtRes.st, ub)} |->
                IF ~rest.success THEN rest
                ELSE CodegenRes(rest.st, TRUE, stmtRes.ret \/ rest.ret)])])

\* The statement loop of BlockStmtAST::codegen.
BlockStmts(body, st, ub) ==
  IF body = <<>> THEN CodegenRes(st, TRUE, FALSE)
  ELSE Let([stmtRes \in {codegen(Head(body), st, ub)} |->
         IF ~stmtRes.success THEN stmtRes
         ELSE IF stmtRes.ret THEN CodegenRes(stmtRes.st, TRUE, TRUE)
         ELSE BlockStmts(Tail(body), stmtRes.st, ub)])

BlockStmtAST_codegen(s, st, ub) == BlockStmts(s[2], st, ub)

\* A declaration that binds the name before its initialiser is generated.
VariableDeclBindFirst(s, st, ub) ==
  Let([initVal \in {IF IsNull(s[4]) THEN [st |-> st, v |-> getZeroVal(s[3])]
                    ELSE codegenExpr(s[4],
                           [createEntryBlockAlloca(st, s[2], getLLVMType(s[3]))
                              EXCEPT !.named = NamedInsert(@, s[2],
                                       Variable(s[3], getLLVMType(s[3]), st.nextId))],
                           ub)} |->
    IF initVal.v.k = "null" THEN CodegenRes(initVal.st, FALSE, FALSE)
    ELSE CodegenRes(CreateStore(initVal.st, initVal.v,
                                InstV(PtrTo(getLLVMType(s[3])), st.nextId)),
                    TRUE, FALSE)])

VariableDeclAST_codegen(s, st, ub) ==
  Let([initVal \in {IF IsNull(s[4]) THEN [st |-> st, v |-> getZeroVal(s[3])]
                    ELSE codegenExpr(s[4], st, ub)} |->
    IF initVal.v.k = "null" THEN CodegenRes(initVal.st, FALSE, FALSE)
    ELSE CodegenRes(
           [CreateStore(createEntryBlockAlloca(initVal.st, s[2], getLLVMType(s[3])),
                        initVal.v,
                        InstV(PtrTo(getLLVMType(s[3])), initVal.st.nextId))
              EXCEPT !.named = NamedInsert(@, s[2],
                                 Variable(s[3], getLLVMType(s[3]),
                                          initVal.st.nextId))],
           TRUE, FALSE)])

\* StatementAST::codegen, dispatched on the node's class.  A call through
\* a null statement pointer is undefined: a crash, or nothing happens.
codegen(s, st, ub) ==
  IF st.crashed THEN CodegenRes(st, FALSE, FALSE)
  ELSE CASE s[1] = "if" -> IfStmtAST_codegen(s, st, ub)
         [] s[1] = "ret" -> ReturnStmtAST_codegen(s, st, ub)
         [] s[1] = "for" -> ForStmtAST_codegen(s, st, ub)
         [] s[1] = "block" -> BlockStmtAST_codegen(s, st, ub)
         [] s[1] = "vardecl" -> VariableDeclAST_codegen(s, st, ub)
         [] s[1] = "null" ->
            CodegenRes([st EXCEPT !.crashed = (ub = "crash")], ub # "crash", FALSE)
         [] OTHER -> ExprAST_codegen(s, st, ub)

\* What llvm::verifyFunction checks of one instruction: operand types.
WellTyped(ins, retType, mod) ==
  CASE ins.op = "ret" -> ins.x.k # "null" /\ ins.x.ty = retType
    [] ins.op = "store" -> ins.x.k # "null" /\ ElemTy(ins.y.ty) = ins.x.ty
    [] ins.op = "load" -> ins.ty # ""
    [] ins.op \in {"add", "sub", "mul"} ->
         ins.x.ty = ins.y.ty /\ ins.x.ty \in IntTys
    [] ins.op = "fadd" -> ins.x.ty = "double" /\ ins.y.ty = "double"
    [] ins.op \in {"icmp_ult", "icmp_ne"} ->
         ins.x.ty = ins.y.ty /\ ins.x.ty \in IntTys \cup PtrTys
    [] ins.op = "fcmp_one" -> ins.x.ty = "double" /\ ins.y.ty = "double"
    [] ins.op = "call" ->
         \E i \in 1..Len(mod.funcs) :
            /\ mod.funcs[i].name = ins.n
            /\ mod.funcs[i].uniq = ins.t1
            /\ mod.funcs[i].argTypes = [j \in 1..Len(ins.args) |-> ins.args[j].ty]
    [] OTHER -> TRUE

\* A block the verifier accepts: it ends in a terminator and holds none
\* before its end.
Terminated(b) ==
  /\ b.instrs # <<>>
  /\ b.instrs[Len(b.instrs)].op \in Terminators
  /\ \A i \in 1..(Len(b.instrs) - 1) : b.instrs[i].op \notin Terminators

\* A verifier that accepts every function.
verifyFunctionOff(blocks, retType, mod) == FALSE

\* llvm::verifyFunction: TRUE when the function is broken.
verifyFunction(blocks, retType, mod) ==
  \E i \in 1..Len(blocks) :
     /\ blocks[i].attached
     /\ \/ ~Terminated(blocks[i])
        \/ \E j \in 1..Len(blocks[i].instrs) :
              ~WellTyped(blocks[i].instrs[j], retType, mod)

\* The parameter loop of FunctionAST::codegen over f->args(): an alloca,
\* a store of the incoming argument and a NamedValues entry for each.
\* p.getArgType(i) past the end of the prototype's list is undefined:
\* a crash, or the garbage type ub.
RECURSIVE FunctionArgs(_, _, _, _, _)
FunctionArgs(i, fun, p, st, ub) ==
  IF i > Len(fun.argNames) \/ st.crashed THEN st
  ELSE IF i > Len(p.argTypes) /\ ub = "crash" THEN [st EXCEPT !.crashed = TRUE]
  ELSE FunctionArgs(i + 1, fun, p,
         [CreateStore(createEntryBlockAlloca(st, fun.argNames[i], fun.argTypes[i]),
                      ArgV(fun.argTypes[i], i, fun.argNames[i]),
                      InstV(PtrTo(fun.argTypes[i]), st.nextId))
            EXCEPT !.named = NamedInsert(@, fun.argNames[i],
                               Variable(IF i > Len(p.argTypes) THEN ub
                                        ELSE p.argTypes[i],
                                        fun.argTypes[i], st.nextId))],
         ub)

\* A registration that keeps the entry already there.
RegisterProtoOnce(protos, p) ==
  IF p.name \in DOMAIN protos THEN protos ELSE protos @@ (p.name :> p)

\* FunctionProtos[name] = std::move(proto): the entry is made or replaced.
RegisterProto(protos, p) ==
  [n \in DOMAIN protos \cup {p.name} |-> IF n = p.name THEN p ELSE protos[n]]

\* An erase that leaves the function in the module.
EraseFunctionNot(mod, f) == mod

\* Function::eraseFromParent.
EraseFunction(mod, f) ==
  [mod EXCEPT !.funcs = [i \in 1..(Len(@) - 1) |-> IF i < f THEN @[i] ELSE @[i + 1]]]

\* An end of function codegen that leaves a function whose body failed in
\* the module, with the blocks it has got.
FunctionEndNoErase(p, f, bodyRes) ==
  IF bodyRes.st.crashed THEN [st |-> bodyRes.st, f |-> 0, res |-> "abort"]
  ELSE IF ~bodyRes.success
    THEN [st |-> [bodyRes.st EXCEPT !.mod.funcs[f].blocks = bodyRes.st.blocks,
                                    !.blocks = <<>>],
          f |-> 0, res |-> "null"]
  ELSE Let([st \in {IF p.name # "magic"
                         /\ bodyRes.st.blocks[bodyRes.st.ip].instrs = <<>>
                      THEN CreateRet(bodyRes.st, ConstV("double", 0))
                      ELSE bodyRes.st} |->
    IF verifyFunction(st.blocks, st.mod.funcs[f].retType, st.mod)
      THEN [st |-> st, f |-> 0, res |-> "abort"]
      ELSE [st |-> [st EXCEPT !.mod.funcs[f].blocks = st.blocks, !.blocks = <<>>],
            f |-> f, res |-> "ok"]])

\* FunctionAST::codegen after the body: bodyRes is its result, f the
\* function of the module that received it.
FunctionEnd(p, f, bodyRes) ==
  IF bodyRes.st.crashed THEN [st |-> bodyRes.st, f |-> 0, res |-> "abort"]
  ELSE IF ~bodyRes.success
    THEN [st |-> [bodyRes.st EXCEPT !.mod = EraseFunction(@, f), !.blocks = <<>>],
          f |-> 0, res |-> "null"]
  ELSE Let([st \in {IF p.name # "magic"
                         /\ bodyRes.st.blocks[bodyRes.st.ip].instrs = <<>>
                      THEN CreateRet(bodyRes.st, ConstV("double", 0))
                      ELSE bodyRes.st} |->
    IF verifyFunction(st.blocks, st.mod.funcs[f].retType, st.mod)
      THEN [st |-> st, f |-> 0, res |-> "abort"]
      ELSE [st |-> [st EXCEPT !.mod.funcs[f].blocks = st.blocks, !.blocks = <<>>],
            f |-> f, res |-> "ok"]])

\* FunctionAST::codegen from the entry block on: r is what resolveFunction
\* returned for the prototype's name.
FunctionBody(fnAST, r, ub) ==
  Let([args \in {FunctionArgs(1, r.st.mod.funcs[r.f], fnAST[2],
                   [r.st EXCEPT !.fn = r.f,
                                !.blocks = Append(r.st.mod.funcs[r.f].blocks,
                                                  Block("entry", TRUE)),
                                !.ip = Len(r.st.mod.funcs[r.f].blocks) + 1,
                                !.named = NoNamedValues,
                                !.nextId = 1],
                   ub)} |->
    Let([bodyRes \in {codegen(fnAST[3], args, ub)} |->
      FunctionEnd(fnAST[2], r.f, bodyRes)])])

\* FunctionAST::codegen on <<"function", proto, body>>.  res is "ok" (the
\* function, index f of st.mod.funcs, is returned), "null" (nullptr is
\* returned) or "abort" (the process ended: the verifier's assert, a crash).
FunctionAST_codegen(fnAST, st0, ub) ==
  Let([r \in {resolveFunction([st0 EXCEPT !.protos = RegisterProto(@, fnAST[2])],
                              fnAST[2].name)} |->
    FunctionBody(fnAST, r, ub)])

(***************************************************************************)
(* The JIT host (KaleidoscopeJIT): a list of [h, mod], oldest first.  An   *)
(* address is [h, f]: function f of the module with handle h.              *)
(***************************************************************************)
Defines(mod, name) ==
  \E i \in 1..Len(mod.funcs) :
     /\ mod.funcs[i].name = name
     /\ mod.funcs[i].uniq = 0
     /\ mod.funcs[i].blocks # <<>>

addModule(jit, h, mod) == Append(jit, [h |-> h, mod |-> mod])

removeModule(jit, h) == SelectSeq(jit, LAMBDA e : e.h # h)

\* findSymbol: the addresses name may resolve to, one for each live module
\* that defines it (the interface fixes no order among them); the empty
\* set is the null symbol.
findSymbol(jit, name) ==
  {[h |-> jit[i].h, f |-> getFunction(jit[i].mod, name)] :
     i \in {j \in 1..Len(jit) : Defines(jit[j].mod, name)}}

NoAddr == [h |-> 0, f |-> 0]

\* The live module with handle h.
ModuleOf(jit, h) == jit[CHOOSE i \in 1..Len(jit) : jit[i].h = h].mod

(***************************************************************************)
(* The compiled code at run time.  A run-time value is [t, v, d, s, text]: *)
(* a number v ("int"), the null pointer, the address of slot s of the      *)
(* frame at depth d ("ptr"), the address of a string constant ("str"),     *)
(* the address of a slot of a frame that has returned ("dangling"), or a   *)
(* value the code did not define ("undef").  A frame of the call stack is  *)
(* [h, f, b, i, regs, mem, args]: instruction i of block b of function f   *)
(* of module h is next; regs holds the instruction results, mem the stack  *)
(* slots.                                                                  *)
(***************************************************************************)
RInt(v) == [t |-> "int", v |-> v, d |-> 0, s |-> 0, text |-> ""]
RNull == [t |-> "null", v |-> 0, d |-> 0, s |-> 0, text |-> ""]
RUndef == [t |-> "undef", v |-> 0, d |-> 0, s |-> 0, text |-> ""]
RDangling == [t |-> "dangling", v |-> 0, d |-> 0, s |-> 0, text |-> ""]
RPtr(d, s) == [t |-> "ptr", v |-> 0, d |-> d, s |-> s, text |-> ""]
RStr(text) == [t |-> "str", v |-> 0, d |-> 0, s |-> 0, text |-> text]

NoValues == [k \in {} |-> RUndef]

Frame(addr, args) ==
  [h |-> addr.h, f |-> addr.f, b |-> 1, i |-> 1, regs |-> NoValues,
   mem |-> NoValues, args |-> args]

\* The characters with codes 32 to 95 and 97 to 126, in order.
Upper == " !\"#$%&'()*+,-./0123456789:;<=>?@ABCDEFGHIJKLMNOPQRSTUVWXYZ[\\]^_"
Lower == "abcdefghijklmnopqrstuvwxyz{|}~"

IndexOf(c, s) == CHOOSE i \in 1..Len(s) : SubSeq(s, i, i) = c

\* The code of the character c (a string of length one).
Ascii(c) ==
  IF c = "\n" THEN 10
  ELSE IF \E i \in 1..Len(Upper) : SubSeq(Upper, i, i) = c THEN 31 + IndexOf(c, Upper)
  ELSE 96 + IndexOf(c, Lower)

\* The characters of the text s, as codes.
Bytes(s) == [i \in 1..Len(s) |-> Ascii(SubSeq(s, i, i))]

\* The byte at the address of a string constant (its terminating null
\* when the string is empty).
FirstByte(text) == IF text = "" THEN 0 ELSE Ascii(Head(text))

\* The value of operand x in frame fr.
Val(x, fr) ==
  CASE x.k = "const" ->
         IF x.ty \notin PtrTys THEN RInt(x.val)
         ELSE IF x.val = 0 THEN RNull ELSE RStr(x.n)
    [] x.k = "inst" -> IF x.id \in DOMAIN fr.regs THEN fr.regs[x.id] ELSE RUndef
    [] x.k = "arg" -> fr.args[x.id]
    [] OTHER -> RUndef

Top(stack) == stack[Len(stack)]

FunctionAt(jit, fr) == ModuleOf(jit, fr.h).funcs[fr.f]

\* The instruction the frame is at.
CurInstr(jit, fr) == FunctionAt(jit, fr).blocks[fr.b].instrs[fr.i]

Goto(stack, b) == [stack EXCEPT ![Len(stack)].b = b, ![Len(stack)].i = 1]

Advance(stack) == [stack EXCEPT ![Len(stack)].i = @ + 1]

\* The top frame's instruction yields v as result number id.
SetReg(stack, id, v) ==
  Advance([stack EXCEPT ![Len(stack)].regs = (id :> v) @@ @])

Running(stack, res) == [stack |-> stack, pc |-> "run", res |-> res]
Crashed(stack, res) == [stack |-> stack, pc |-> "aborted", res |-> res]

\* The depth of the call stack at which the process runs out of stack.
MaxStack == 3

\* The outcomes of undefined behaviour at run time: the process dies, or
\* it goes on (a branch on an undefined value is then taken or not).
ExecUB == {"crash", "zero", "one"}

\* A store through a pointer that addresses no live slot is undefined.
ExecStore(stack, v, ptr, res, ub) ==
  IF ptr.t = "ptr"
    THEN Running(Advance([stack EXCEPT ![ptr.d].mem = (ptr.s :> v) @@ @]), res)
  ELSE IF ub = "crash" THEN Crashed(stack, res)
  ELSE Running(Advance(stack), res)

\* A load of a slot never stored to yields an undefined value; a load
\* through a pointer that addresses nothing live is undefined.
ExecLoad(stack, id, ptr, res, ub) ==
  CASE ptr.t = "ptr" ->
         Running(SetReg(stack, id,
                        IF ptr.s \in DOMAIN stack[ptr.d].mem
                          THEN stack[ptr.d].mem[ptr.s] ELSE RUndef), res)
    [] ptr.t = "str" -> Running(SetReg(stack, id, RInt(FirstByte(ptr.text))), res)
    [] OTHER -> IF ub = "crash" THEN Crashed(stack, res)
                ELSE Running(SetReg(stack, id, RUndef), res)

\* The result of a two-operand instruction on the values a and b; the
\* only pointers compared are compared with null.
ExecBinary(ins, a, b) ==
  IF a.t = "int" /\ b.t = "int" THEN RInt(Compute(ins.op, ins.x.ty, a.v, b.v))
  ELSE IF a.t = "undef" \/ b.t = "undef" THEN RUndef
  ELSE RInt(IF (a.t = "null") = (b.t = "null") /\ a = b THEN 0 ELSE 1)

ExecCondBr(stack, ins, cond, res, ub) ==
  IF cond.t = "int" THEN Running(Goto(stack, IF cond.v # 0 THEN ins.t1 ELSE ins.t2), res)
  ELSE IF ub = "crash" THEN Crashed(stack, res)
  ELSE Running(Goto(stack, IF ub = "one" THEN ins.t1 ELSE ins.t2), res)

\* The arguments as the callee receives them: a parameter the caller
\* passed no argument of its type for holds an undefined value.
PassArgs(args, argTypes, fr) ==
  [j \in 1..Len(argTypes) |->
     IF j <= Len(args) /\ args[j].ty = argTypes[j] THEN Val(args[j], fr)
     ELSE RUndef]

\* A call of the function at target (NoAddr: the symbol is unresolved,
\* which the JIT reports as a fatal error).
ExecCall(jit, stack, ins, target, res) ==
  IF target = NoAddr \/ Len(stack) >= MaxStack THEN Crashed(stack, res)
  ELSE Running(Append(stack,
                 Frame(target, PassArgs(ins.args, FunctionAt(jit, target).argTypes,
                                        Top(stack)))), res)

\* The value v as the caller of the frame at depth d sees it.
Returned(v, d) == IF v.t = "ptr" /\ v.d = d THEN RDangling ELSE v

\* ret: the frame is popped and the value becomes the result of the
\* caller's call; from the last frame it is the result of fp(), which the
\* driver reads as a char.
ExecRet(jit, stack, v, res) ==
  IF Len(stack) = 1
    THEN [stack |-> <<>>, pc |-> "remove",
          res |-> IF FunctionAt(jit, Top(stack)).retType = "i8" THEN v ELSE RUndef]
    ELSE Running(SetReg(SubSeq(stack, 1, Len(stack) - 1),
                        CurInstr(jit, stack[Len(stack) - 1]).id,
                        IF FunctionAt(jit, Top(stack)).retType
                             = CurInstr(jit, stack[Len(stack) - 1]).ty
                          THEN Returned(v, Len(stack)) ELSE RUndef),
                 res)

\* The functions a call instruction may enter: the function of the
\* caller's module when that has a body, else what the JIT resolves the
\* name to.  {NoAddr} when the symbol is unresolved, and for every
\* instruction that is no call.
CallTargets(jit, fr) ==
  LET ins == CurInstr(jit, fr)
      local == {k \in 1..Len(ModuleOf(jit, fr.h).funcs) :
                  /\ ModuleOf(jit, fr.h).funcs[k].name = ins.n
                  /\ ModuleOf(jit, fr.h).funcs[k].uniq = ins.t1
                  /\ ModuleOf(jit, fr.h).funcs[k].blocks # <<>>}
  IN IF ins.op # "call" THEN {NoAddr}
     ELSE IF local # {} THEN {[h |-> fr.h, f |-> k] : k \in local}
     ELSE IF ins.t1 # 0 \/ findSymbol(jit, ins.n) = {} THEN {NoAddr}
     ELSE findSymbol(jit, ins.n)

\* One instruction of the top frame.
Step(jit, stack, ins, res, ub, target) ==
  CASE ins.op = "alloca" ->
         Running(SetReg(stack, ins.id, RPtr(Len(stack), ins.id)), res)
    [] ins.op = "store" ->
         ExecStore(stack, Val(ins.x, Top(stack)), Val(ins.y, Top(stack)), res, ub)
    [] ins.op = "load" -> ExecLoad(stack, ins.id, Val(ins.x, Top(stack)), res, ub)
    [] ins.op = "call" -> ExecCall(jit, stack, ins, target, res)
    [] ins.op = "ret" -> ExecRet(jit, stack, Val(ins.x, Top(stack)), res)
    [] ins.op = "br" -> Running(Goto(stack, ins.t1), res)
    [] ins.op = "condbr" -> ExecCondBr(stack, ins, Val(ins.x, Top(stack)), res, ub)
    [] OTHER ->
         Running(SetReg(stack, ins.id,
                        ExecBinary(ins, Val(ins.x, Top(stack)),
                                   Val(ins.y, Top(stack)))), res)

(***************************************************************************)
(* The lexer (gettok) and its byte source (StringReader).  Characters are  *)
(* their codes, as in the int lastCh; EOF is -1.                           *)
(***************************************************************************)
VARIABLES
  prog,            \* StringReader: the program text
  idx,             \* StringReader: the number of characters handed out
  lastCh,          \* gettok's static lastCh
  lpc,             \* where gettok is
  IdentifierStr,   \* filled in if tok_identifier
  num,             \* the text of the number being read
  found_dec,       \* whether a '.' was read into it
  lit,             \* the text of the string literal being read
  IntVal,          \* filled in if tok_int_literal
  FPVal,           \* filled in if tok_fp_literal
  StrVal,          \* filled in if tok_str_literal
  tok              \* the token gettok returned last

lexer == <<prog, idx, lastCh, lpc, IdentifierStr, num, found_dec, lit, IntVal,
           FPVal, StrVal, tok>>

(***************************************************************************)
(* The driver.                                                             *)
(***************************************************************************)
VARIABLES
  toks,            \* the token stream the lexer delivers
  pos,             \* the position of CurTok in toks
  pc,              \* where the driver is
  TheModule,       \* the current module; id 0 is the null pointer
  nextModule,      \* the identity of the next module ResetModule makes
  FunctionProtos,  \* name -> the latest prototype declared with it
  NamedValues,     \* the symbol table
  TheJIT,          \* the modules handed to the JIT host
  modHandle,       \* HandleTopLevelExpression's handle of its module
  exprSymbol,      \* HandleTopLevelExpression's symbol of __anon_expr
  stack,           \* the call stack of the compiled code fp() runs
  res,             \* the result of fp()
  byDef,           \* history: the names last registered by a def
  anonHandles,     \* history: the handles of the top-level expressions
  out              \* what the last step wrote to stderr

vars == <<toks, pos, pc, TheModule, nextModule, FunctionProtos, NamedValues,
          TheJIT, modHandle, exprSymbol, stack, res, byDef, anonHandles, out,
          lexer>>

NullModule == Module(0)

\* A reset that leaves the current module null.
ResetModuleNull(id) == Module(0)

\* ResetModule: a new module (with its pass manager) becomes current.
ResetModule(id) == Module(id)

\* The codegen state a handler starts from.
CodegenState ==
  [mod |-> TheModule, protos |-> FunctionProtos, fn |-> 0, blocks |-> <<>>,
   ip |-> 0, named |-> NamedValues, nextId |-> 1, log |-> <<>>,
   crashed |-> FALSE]

UBOutcomes == {"crash", "byte", "byte_ptr"}

Ready == <<"ready> ">>

\* The handlers' error recovery without its getNextToken().
SkipTokenNot(ts, p) == p

\* "Skip token for error recovery": getNextToken() after a failed parse.
SkipToken(ts, p) == getNextToken(ts, p)

\* case tok_semi of MainLoop.
SkipSemi ==
  /\ pc = "loop"
  /\ CurTok(toks, pos) = K(";")
  /\ pos' = getNextToken(toks, pos)
  /\ out' = Ready
  /\ UNCHANGED <<toks, pc, TheModule, nextModule, FunctionProtos, NamedValues,
                 TheJIT, modHandle, exprSymbol, stack, res, byDef, anonHandles,
                 lexer>>

\* case tok_eof of MainLoop.
Return ==
  /\ pc = "loop"
  /\ CurTok(toks, pos) = tok_eof
  /\ pc' = "done"
  /\ out' = Ready
  /\ UNCHANGED <<toks, pos, TheModule, nextModule, FunctionProtos, NamedValues,
                 TheJIT, modHandle, exprSymbol, stack, res, byDef, anonHandles,
                 lexer>>

HandleDefinition ==
  /\ pc = "loop"
  /\ CurTok(toks, pos) = K("def")
  /\ \E fnAST \in {ParseDefinition(toks, pos)} :
     IF ~fnAST.ok
       THEN /\ pos' = SkipToken(toks, fnAST.p)
            /\ out' = Ready \o fnAST.e
            /\ UNCHANGED <<pc, TheModule, nextModule, FunctionProtos,
                           NamedValues, TheJIT, byDef>>
       ELSE \E ub \in UBOutcomes :
            \E fnIR \in {FunctionAST_codegen(fnAST.n, CodegenState, ub)} :
            /\ pos' = fnAST.p
            /\ FunctionProtos' = fnIR.st.protos
            /\ byDef' = byDef \cup {fnAST.n[2].name}
            /\ NamedValues' = fnIR.st.named
            /\ IF fnIR.res = "ok"
                 THEN /\ TheJIT' = addModule(TheJIT, nextModule, fnIR.st.mod)
                      /\ TheModule' = ResetModule(nextModule)
                      /\ nextModule' = nextModule + 1
                      /\ out' = Ready \o fnAST.e \o fnIR.st.log
                                  \o <<"Read function definition:">>
                      /\ pc' = "loop"
                 ELSE /\ TheModule' = fnIR.st.mod
                      /\ out' = Ready \o fnAST.e \o fnIR.st.log
                      /\ pc' = IF fnIR.res = "abort" THEN "aborted" ELSE "loop"
                      /\ UNCHANGED <<TheJIT, nextModule>>
  /\ UNCHANGED <<toks, modHandle, exprSymbol, stack, res, anonHandles, lexer>>

HandleExtern ==
  /\ pc = "loop"
  /\ CurTok(toks, pos) = K("extern")
  /\ \E protoAST \in {ParseExtern(toks, pos)} :
     IF ~protoAST.ok
       THEN /\ pos' = SkipToken(toks, protoAST.p)
            /\ out' = Ready \o protoAST.e
            /\ UNCHANGED <<TheModule, FunctionProtos, byDef>>
       ELSE /\ pos' = protoAST.p
            /\ byDef' = byDef \ {protoAST.n.name}
            /\ TheModule' = PrototypeAST_codegen(protoAST.n, TheModule).mod
            /\ FunctionProtos' = RegisterProto(FunctionProtos, protoAST.n)
            /\ out' = Ready \o <<"Read extern:">>
  /\ UNCHANGED <<toks, pc, nextModule, NamedValues, TheJIT, modHandle,
                 exprSymbol, stack, res, anonHandles, lexer>>

\* HandleTopLevelExpression up to ResetModule.
HandleTopLevelExpression ==
  /\ pc = "loop"
  /\ CurTok(toks, pos)[1] \notin {"eof", ";", "def", "extern"}
  /\ \E fnAST \in {ParseTopLevelExpr(toks, pos)} :
     IF ~fnAST.ok
       THEN /\ pos' = SkipToken(toks, fnAST.p)
            /\ out' = Ready \o fnAST.e
            /\ UNCHANGED <<pc, TheModule, nextModule, FunctionProtos,
                           NamedValues, TheJIT, modHandle, byDef, anonHandles>>
       ELSE \E ub \in UBOutcomes :
            \E fnIR \in {FunctionAST_codegen(fnAST.n, CodegenState, ub)} :
            /\ pos' = fnAST.p
            /\ FunctionProtos' = fnIR.st.protos
            /\ byDef' = byDef \ {"__anon_expr"}
            /\ NamedValues' = fnIR.st.named
            /\ IF fnIR.res = "ok"
                 THEN /\ TheJIT' = addModule(TheJIT, nextModule, fnIR.st.mod)
                      /\ modHandle' = nextModule
                      /\ anonHandles' = anonHandles \cup {nextModule}
                      /\ TheModule' = ResetModule(nextModule)
                      /\ nextModule' = nextModule + 1
                      /\ out' = Ready \o fnIR.st.log \o <<"Read a top-level expr:">>
                      /\ pc' = "find"
                 ELSE /\ TheModule' = fnIR.st.mod
                      /\ out' = Ready \o fnIR.st.log
                      /\ pc' = IF fnIR.res = "abort" THEN "aborted" ELSE "loop"
                      /\ UNCHANGED <<TheJIT, nextModule, modHandle, anonHandles>>
  /\ UNCHANGED <<toks, exprSymbol, stack, res, lexer>>

\* TheJIT->findSymbol("__anon_expr") and the assert on its result.
FindAnonExpr ==
  /\ pc = "find"
  /\ IF findSymbol(TheJIT, "__anon_expr") = {}
       THEN pc' = "aborted" /\ exprSymbol' = NoAddr
       ELSE pc' = "call" /\ exprSymbol' \in findSymbol(TheJIT, "__anon_expr")
  /\ out' = <<>>
  /\ UNCHANGED <<toks, pos, TheModule, nextModule, FunctionProtos, NamedValues,
                 TheJIT, modHandle, stack, res, byDef, anonHandles, lexer>>

\* fp(): the compiled code at exprSymbol is entered, with no arguments.
InvokeAnonExpr ==
  /\ pc = "call"
  /\ stack' = <<Frame(exprSymbol,
                      PassArgs(<<>>, FunctionAt(TheJIT, exprSymbol).argTypes,
                               NoAddr))>>
  /\ pc' = "run"
  /\ out' = <<>>
  /\ UNCHANGED <<toks, pos, TheModule, nextModule, FunctionProtos, NamedValues,
                 TheJIT, modHandle, exprSymbol, res, byDef, anonHandles, lexer>>

\* One instruction of the compiled code; when the frame fp() entered
\* returns, char res is set and the driver's fprintf prints it.
ExecStep ==
  /\ pc = "run"
  /\ \E ub \in ExecUB :
     \E target \in CallTargets(TheJIT, Top(stack)) :
     \E next \in {Step(TheJIT, stack, CurInstr(TheJIT, Top(stack)), res, ub,
                       target)} :
       /\ stack' = next.stack
       /\ pc' = next.pc
       /\ res' = next.res
       /\ out' = IF next.pc = "remove" THEN <<"Evaluated to:">> ELSE <<>>
  /\ UNCHANGED <<toks, pos, TheModule, nextModule, FunctionProtos, NamedValues,
                 TheJIT, modHandle, exprSymbol, byDef, anonHandles, lexer>>

\* The last step of HandleTopLevelExpression without the removeModule.
RemoveAnonModuleNot ==
  /\ pc = "remove"
  /\ pc' = "loop"
  /\ out' = <<>>
  /\ UNCHANGED <<toks, pos, TheModule, nextModule, FunctionProtos, NamedValues,
                 TheJIT, modHandle, exprSymbol, stack, res, byDef, anonHandles,
                 lexer>>

\* TheJIT->removeModule(modHandle); back to the loop.
RemoveAnonModule ==
  /\ pc = "remove"
  /\ TheJIT' = removeModule(TheJIT, modHandle)
  /\ pc' = "loop"
  /\ out' = <<>>
  /\ UNCHANGED <<toks, pos, TheModule, nextModule, FunctionProtos, NamedValues,
                 modHandle, exprSymbol, stack, res, byDef, anonHandles, lexer>>

(***************************************************************************)
(* The lexer: gettok, one step for each read of the byte source.           *)
(***************************************************************************)
EOF == -1

\* An int as the char a std::string stores for it.
ToChar(ch) == ch % 256

isspace(ch) == ch = 32 \/ ch \in 9..13
isdigit(ch) == ch \in 48..57
isalpha(ch) == ch \in 65..90 \/ ch \in 97..122
isalnum(ch) == isalpha(ch) \/ isdigit(ch)

\* StringReader::GetNextChar: the next character and the new idx; EOF for
\* ever at the end of the text.
GetNextChar(text, i) ==
  IF i < Len(text) THEN [ch |-> text[i + 1], idx |-> i + 1]
  ELSE [ch |-> EOF, idx |-> i]

Tok(name) == <<name, 0>>

\* The token of the identifier text str.
Keyword(str) ==
  CASE str = Bytes("def") -> Tok("tok_def")
    [] str = Bytes("extern") -> Tok("tok_extern")
    [] str = Bytes("if") -> Tok("tok_if")
    [] str = Bytes("then") -> Tok("tok_then")
    [] str = Bytes("else") -> Tok("tok_else")
    [] str = Bytes("for") -> Tok("tok_for")
    [] str = Bytes("return") -> Tok("tok_return")
    [] str = Bytes("var") -> Tok("tok_var")
    [] str = Bytes("in") -> Tok("tok_in")
    [] OTHER -> Tok("tok_identifier")

\* A digit table without the letters.
hexDigitToNumDecimal(ch) == IF ch \in 48..57 THEN ch - 48 ELSE -1

\* hexDigitToNum: the place of ch in "0123456789ABCDEF", -1 (npos as a
\* char) when it is none of them.
hexDigitToNum(ch) ==
  IF ch \in 48..57 THEN ch - 48
  ELSE IF ch \in 65..70 THEN ch - 55
  ELSE -1

\* The loop of ConvertHexString over the digits from place i on.
RECURSIVE HexBytes(_, _)
HexBytes(s, i) ==
  IF i > Len(s) THEN <<>>
  ELSE <<ToChar(hexDigitToNum(s[i]) * 16 + hexDigitToNum(s[i + 1]))>>
         \o HexBytes(s, i + 2)

\* ConvertHexString: the payload, and what it prints to stderr.
ConvertHexString(s) ==
  IF Len(s) < 2 \/ s[1] # Ascii("\\") \/ s[2] # Ascii("x")
    THEN [str |-> s, err |-> <<>>]
  ELSE IF Len(s) % 2 # 0
    THEN [str |-> <<>>, err |-> <<"invalid hex string">>]
  ELSE [str |-> HexBytes(s, 3), err |-> <<>>]

\* The number the decimal digits at s[i], s[i+1], ... up to the first
\* character that is no digit denote, after the digits read before (acc).
RECURSIVE Digits(_, _, _)
Digits(s, i, acc) ==
  IF i > Len(s) \/ ~isdigit(s[i]) THEN [val |-> acc, next |-> i]
  ELSE Digits(s, i + 1, 10 * acc + (s[i] - 48))

\* strtol(num, nullptr, 10) of a text that starts with a digit or a '.'.
strtol(s) == Digits(s, 1, 0).val

\* A decimal fraction mant / 10^scale without trailing zeros.
RECURSIVE Decimal(_, _)
Decimal(mant, scale) ==
  IF scale > 0 /\ mant % 10 = 0 THEN Decimal(mant \div 10, scale - 1)
  ELSE <<mant, scale>>

\* strtod of a text of digits and '.': the longest prefix that is a
\* number (digits, then '.' and digits), 0.0 if there is none.
strtod(s) ==
  Let([int \in {Digits(s, 1, 0)} |->
    IF int.next > Len(s) \/ s[int.next] # Ascii(".") THEN Decimal(int.val, 0)
    ELSE Let([frac \in {Digits(s, int.next + 1, int.val)} |->
           IF frac.next = int.next + 1 /\ int.next = 1 THEN Decimal(0, 0)
           ELSE Decimal(frac.val, frac.next - int.next - 1)])])

\* The longest text a std::string holds; growing it further throws.
MaxLit == 10

driver == <<toks, pos, pc, TheModule, nextModule, FunctionProtos, NamedValues,
            TheJIT, modHandle, exprSymbol, stack, res, byDef, anonHandles>>

\* A call of gettok.
gettok ==
  /\ lpc = "idle"
  /\ lpc' = "ws"
  /\ out' = <<>>
  /\ UNCHANGED <<prog, idx, lastCh, IdentifierStr, num, found_dec, lit, IntVal,
                 FPVal, StrVal, tok, driver>>

\* while (isspace(lastCh)) lastCh = getch();
SkipWhitespace ==
  /\ lpc = "ws"
  /\ isspace(lastCh)
  /\ \E c \in {GetNextChar(prog, idx)} : lastCh' = c.ch /\ idx' = c.idx
  /\ out' = <<>>
  /\ UNCHANGED <<prog, lpc, IdentifierStr, num, found_dec, lit, IntVal, FPVal,
                 StrVal, tok, driver>>

\* IdentifierStr = lastCh;
StartIdentifier ==
  /\ lpc = "ws"
  /\ isalpha(lastCh) \/ lastCh = Ascii("_")
  /\ IdentifierStr' = <<ToChar(lastCh)>>
  /\ lpc' = "identifier"
  /\ out' = <<>>
  /\ UNCHANGED <<prog, idx, lastCh, num, found_dec, lit, IntVal, FPVal, StrVal,
                 tok, driver>>

\* One test of the identifier loop, and the return after its exit.
ReadIdentifier ==
  /\ lpc = "identifier"
  /\ \E c \in {GetNextChar(prog, idx)} :
       /\ lastCh' = c.ch
       /\ idx' = c.idx
       /\ IF isalnum(c.ch) \/ c.ch = Ascii("_")
            THEN /\ IdentifierStr' = Append(IdentifierStr, ToChar(c.ch))
                 /\ UNCHANGED <<lpc, tok>>
            ELSE /\ tok' = Keyword(IdentifierStr)
                 /\ lpc' = "idle"
                 /\ UNCHANGED IdentifierStr
  /\ out' = <<>>
  /\ UNCHANGED <<prog, num, found_dec, lit, IntVal, FPVal, StrVal, driver>>

\* '{', '}' and ';'.
ReturnPunctuation ==
  /\ lpc = "ws"
  /\ lastCh \in {Ascii("{"), Ascii("}"), Ascii(";")}
  /\ \E c \in {GetNextChar(prog, idx)} : lastCh' = c.ch /\ idx' = c.idx
  /\ tok' = CASE lastCh = Ascii("{") -> Tok("tok_block_open")
              [] lastCh = Ascii("}") -> Tok("tok_block_close")
              [] OTHER -> Tok("tok_semi")
  /\ lpc' = "idle"
  /\ out' = <<>>
  /\ UNCHANGED <<prog, IdentifierStr, num, found_dec, lit, IntVal, FPVal,
                 StrVal, driver>>

\* bool found_dec = false; std::string num;
StartNumber ==
  /\ lpc = "ws"
  /\ isdigit(lastCh) \/ lastCh = Ascii(".")
  /\ num' = <<>>
  /\ found_dec' = FALSE
  /\ lpc' = "number"
  /\ out' = <<>>
  /\ UNCHANGED <<prog, idx, lastCh, IdentifierStr, lit, IntVal, FPVal, StrVal,
                 tok, driver>>

\* One round of the do-while of a number, and the return after its exit.
ReadNumber ==
  /\ lpc = "number"
  /\ num' = Append(num, ToChar(lastCh))
  /\ \E c \in {GetNextChar(prog, idx)} :
       /\ lastCh' = c.ch
       /\ idx' = c.idx
       /\ found_dec' = (found_dec \/ c.ch = Ascii("."))
       /\ IF isdigit(c.ch) \/ c.ch = Ascii(".")
            THEN UNCHANGED <<lpc, tok, IntVal, FPVal>>
            ELSE /\ lpc' = "idle"
                 /\ IF found_dec
                      THEN /\ FPVal' = strtod(num')
                           /\ tok' = Tok("tok_fp_literal")
                           /\ UNCHANGED IntVal
                      ELSE /\ IntVal' = strtol(num')
                           /\ tok' = Tok("tok_int_literal")
                           /\ UNCHANGED FPVal
  /\ out' = <<>>
  /\ UNCHANGED <<prog, IdentifierStr, lit, StrVal, driver>>

\* The opening '"' is read over; std::string lit;
StartString ==
  /\ lpc = "ws"
  /\ lastCh = Ascii("\"")
  /\ \E c \in {GetNextChar(prog, idx)} : lastCh' = c.ch /\ idx' = c.idx
  /\ lit' = <<>>
  /\ lpc' = "string"
  /\ out' = <<>>
  /\ UNCHANGED <<prog, IdentifierStr, num, found_dec, IntVal, FPVal, StrVal,
                 tok, driver>>

\* while (lastCh != '"') { lit += lastCh; lastCh = getch(); }
ReadString ==
  /\ lpc = "string"
  /\ lastCh # Ascii("\"")
  /\ IF Len(lit) >= MaxLit
       THEN /\ lpc' = "thrown"
            /\ UNCHANGED <<lit, lastCh, idx>>
       ELSE /\ lit' = Append(lit, ToChar(lastCh))
            /\ \E c \in {GetNextChar(prog, idx)} : lastCh' = c.ch /\ idx' = c.idx
            /\ UNCHANGED lpc
  /\ out' = <<>>
  /\ UNCHANGED <<prog, IdentifierStr, num, found_dec, IntVal, FPVal, StrVal,
                 tok, driver>>

\* The closing '"' is read over; StrVal = ConvertHexString(lit);
ReturnString ==
  /\ lpc = "string"
  /\ lastCh = Ascii("\"")
  /\ \E c \in {GetNextChar(prog, idx)} : lastCh' = c.ch /\ idx' = c.idx
  /\ StrVal' = ConvertHexString(lit).str
  /\ out' = ConvertHexString(lit).err
  /\ tok' = Tok("tok_str_literal")
  /\ lpc' = "idle"
  /\ UNCHANGED <<prog, IdentifierStr, num, found_dec, lit, IntVal, FPVal,
                 driver>>

StartComment ==
  /\ lpc = "ws"
  /\ lastCh = Ascii("#")
  /\ lpc' = "comment"
  /\ out' = <<>>
  /\ UNCHANGED <<prog, idx, lastCh, IdentifierStr, num, found_dec, lit, IntVal,
                 FPVal, StrVal, tok, driver>>

\* One round of the do-while of a comment; at the end of the line gettok
\* calls itself, at the end of the file it returns tok_eof.
ReadComment ==
  /\ lpc = "comment"
  /\ \E c \in {GetNextChar(prog, idx)} :
       /\ lastCh' = c.ch
       /\ idx' = c.idx
       /\ IF c.ch \notin {EOF, 10, 13} THEN UNCHANGED <<lpc, tok>>
          ELSE IF c.ch # EOF THEN lpc' = "ws" /\ UNCHANGED tok
          ELSE lpc' = "idle" /\ tok' = Tok("tok_eof")
  /\ out' = <<>>
  /\ UNCHANGED <<prog, IdentifierStr, num, found_dec, lit, IntVal, FPVal,
                 StrVal, driver>>

\* Check for end of file. Don't eat the EOF.
ReturnEof ==
  /\ lpc = "ws"
  /\ lastCh = EOF
  /\ tok' = Tok("tok_eof")
  /\ lpc' = "idle"
  /\ out' = <<>>
  /\ UNCHANGED <<prog, idx, lastCh, IdentifierStr, num, found_dec, lit, IntVal,
                 FPVal, StrVal, driver>>

\* Otherwise, just return the character as its ascii value.
ReturnChar ==
  /\ lpc = "ws"
  /\ ~isspace(lastCh) /\ ~isalpha(lastCh) /\ ~isdigit(lastCh)
  /\ lastCh \notin {EOF, Ascii("_"), Ascii("{"), Ascii("}"), Ascii(";"),
                    Ascii("."), Ascii("\""), Ascii("#")}
  /\ \E c \in {GetNextChar(prog, idx)} : lastCh' = c.ch /\ idx' = c.idx
  /\ tok' = <<"char", lastCh>>
  /\ lpc' = "idle"
  /\ out' = <<>>
  /\ UNCHANGED <<prog, IdentifierStr, num, found_dec, lit, IntVal, FPVal,
                 StrVal, driver>>

\* The program texts: every text of up to MaxProg characters of LexChars,
\* and a catalogue of longer ones.
MaxProg == 3

LexChars == {Ascii("a"), Ascii("1"), Ascii("."), Ascii("\""), Ascii("#"), 32}

RECURSIVE Texts(_)
Texts(n) ==
  IF n = 0 THEN {<<>>}
  ELSE LET shorter == Texts(n - 1) IN
       shorter \cup {Append(t, c) : t \in shorter, c \in LexChars}

LexPrograms ==
  Texts(MaxProg)
    \cup {Bytes(s) : s \in {"def f_1;", "extern in", "if then else", "for var",
                            "return {}", "\"abc", "\"\\x41\"", "\"\\x4\"",
                            "\"\\x4G00\" ", "# c\n1.5+.5", "1.2.3", "#\"", "(_a)",
                            "\"\\x00\"", "\"\\xFA09\"", "\"\\x\"", "\"x\\x41\""}}

\* Before the first call of gettok.
LexerInit ==
  /\ idx = 0
  /\ lastCh = 32
  /\ lpc = "idle"
  /\ IdentifierStr = <<>>
  /\ num = <<>>
  /\ found_dec = FALSE
  /\ lit = <<>>
  /\ IntVal = 0
  /\ FPVal = <<0, 0>>
  /\ StrVal = <<>>
  /\ tok = Tok("")

(***************************************************************************)
(* The inputs: token streams.  Programs of up to MaxItems top-level items  *)
(* from a catalogue (each followed by ';'), every such item cut short,     *)
(* and every stream of up to MaxToks tokens over a small alphabet.         *)
(***************************************************************************)
MaxItems == 2
MaxToks == 2

Def(retType, name, params, body) ==
  <<K("def"), Id(retType), Id(name), Ch("(")>> \o params \o <<Ch(")")>> \o body

Extern(retType, name, params) ==
  <<K("extern"), Id(retType), Id(name), Ch("(")>> \o params \o <<Ch(")")>>

Call(name, args) == <<Id(name), Ch("(")>> \o args \o <<Ch(")")>>

ReturnOf(e) == <<K("return")>> \o e

ByteX == <<Id("byte"), Id("x")>>

\* for name = start, end return e
ForReturn(name, start, end, e) ==
  <<K("for"), Id(name), Ch("="), start, Ch(","), end>> \o ReturnOf(e)

VarDecl(name, type, init) ==
  <<K("var"), Id(name), Id(type)>> \o (IF init = <<>> THEN <<>> ELSE <<Ch("=")>> \o init)

Items == {
  Def("byte", "f", <<>>, ReturnOf(<<IntLit(1)>>)),
  Def("byte", "f", <<>>, ReturnOf(<<Id("y")>>)),
  Def("byte", "f", ByteX, ReturnOf(<<Id("x")>>)),
  Def("byte", "f", ByteX, <<Id("x")>>),
  Def("byte", "f", <<>>, ReturnOf(Call("f", <<>>))),
  Def("byte", "g", <<>>, ReturnOf(Call("f", <<>>))),
  Def("byte", "g", <<>>, ReturnOf(Call("f", <<>>) \o <<Ch("+")>> \o Call("f", <<>>))),
  Def("byte", "g", ByteX,
      <<K("{"), K("var"), Id("p"), Id("byte_ptr"), Ch("="), Ch("&"), Id("x"),
        K("return"), Ch("*"), Id("p"), K("}")>>),
  Def("double", "g", ByteX,
      <<K("if"), Id("x"), K("then")>> \o ReturnOf(<<FpLit(1)>>)
        \o <<K("else")>> \o ReturnOf(<<FpLit(2)>>)),
  Def("byte", "g", ByteX,
      <<K("if"), Id("x"), K("then"), Id("x"), K("else")>> \o ReturnOf(<<IntLit(1)>>)),
  Def("byte", "f", <<>>,
      <<K("{"), K("for"), Id("i"), Ch("="), FpLit(0), Ch(","), FpLit(0),
        IntLit(1), K("return"), IntLit(1), K("}")>>),
  Def("byte", "f", <<>>,
      <<K("{"), K("for"), Id("i"), Ch("="), FpLit(0), Ch(","), FpLit(1),
        IntLit(1), K("return"), IntLit(1), K("}")>>),
  Def("byte", "f", <<>>,
      <<K("{"), K("return"), IntLit(1), K(";"), K("return"), IntLit(2), K("}")>>),
  Def("byte", "__anon_expr", <<>>, ReturnOf(<<IntLit(1)>>)),
  Extern("byte", "f", <<>>),
  Extern("byte", "f", ByteX),
  Extern("byte", "f", ByteX \o <<Ch(",")>> \o <<Id("byte"), Id("y")>>),
  Call("f", <<>>),
  Call("f", <<IntLit(1)>>),
  Call("f", <<Id("y")>>),
  Call("g", <<>>),
  <<IntLit(1), Ch("+"), IntLit(2)>>
  }

RECURSIVE ProgramsOf(_)
ProgramsOf(n) ==
  IF n = 0 THEN {<<>>}
  ELSE LET shorter == ProgramsOf(n - 1) IN
       shorter \cup {program \o item \o <<K(";")>> :
                       program \in shorter, item \in Items}

Truncated == UNION {{SubSeq(item, 1, k) : k \in 1..(Len(item) - 1)} : item \in Items}

Alphabet == {K("def"), K("extern"), K(";"), K("return"), Id("byte"), Id("f"),
             Ch("("), Ch(")"), Ch("+"), IntLit(1), StrLit("a")}

RECURSIVE Streams(_)
Streams(n) ==
  IF n = 0 THEN {<<>>}
  ELSE LET shorter == Streams(n - 1) IN
       shorter \cup {Append(ts, t) : ts \in shorter, t \in Alphabet}

\* Operator expressions: up to MaxOps binary operators between the operands
\* a, b, c, ..., alone or followed by a token that is no operator.
MaxOps == 3

BinOps == {"=", "<", "!", "+", "-", "*"}

Operands == <<"a", "b", "c", "d", "e", "f">>

RECURSIVE OpExprs(_)
OpExprs(n) ==
  IF n = 0 THEN {<<Id(Operands[1])>>}
  ELSE LET shorter == OpExprs(n - 1) IN
       shorter \cup {ts \o <<Ch(op), Id(Operands[(Len(ts) + 3) \div 2])>> :
                       ts \in {t \in shorter : Len(t) = 2 * n - 1}, op \in BinOps}

OpStreams ==
  {ts \o end : ts \in OpExprs(MaxOps), end \in {<<>>, <<K(";")>>, <<Ch(")")>>}}

\* Further programs, of one function each or of two.
ByteABC == <<Id("byte"), Id("a"), Ch(","), Id("byte"), Id("b"), Ch(","),
             Id("byte"), Id("c")>>

ChainedAssignment == <<Id("a"), Ch("="), Id("b"), Ch("="), Id("c")>>

Singles == {
  Def("byte", "f", ByteABC, ChainedAssignment),
  Def("byte", "f", ByteABC, ReturnOf(ChainedAssignment)),
  Def("byte", "f", <<Id("byte"), Id("b")>>,
      <<K("{")>> \o ChainedAssignment \o <<K(";"), K("return"), Id("b"), K("}")>>),
  Def("byte", "f", <<>>,
      <<K("{")>> \o VarDecl("x", "byte", <<IntLit(1)>>) \o <<K(";")>>
        \o VarDecl("x", "byte", <<IntLit(2)>>) \o <<K(";")>>
        \o ReturnOf(<<Id("x")>>) \o <<K("}")>>),
  Def("byte", "f", ByteX,
      <<K("{")>> \o VarDecl("x", "byte", <<IntLit(2)>>) \o <<K(";")>>
        \o ReturnOf(<<Id("x")>>) \o <<K("}")>>),
  Def("byte", "f", <<>>,
      <<K("{")>> \o VarDecl("x", "byte", <<IntLit(1)>>) \o <<K(";")>>
        \o VarDecl("y", "byte", <<IntLit(2)>>) \o <<K(";")>>
        \o ReturnOf(<<Id("x"), Ch("+"), Id("y")>>) \o <<K("}")>>),
  Def("double", "f", <<Id("double"), Id("i")>>,
      <<K("{")>> \o ForReturn("i", FpLit(0), FpLit(0), <<Id("i")>>) \o <<K("}")>>),
  Def("double", "f", <<>>,
      <<K("{")>> \o ForReturn("i", FpLit(0), FpLit(0), <<Id("i")>>) \o <<K("}")>>),
  Def("double", "f", <<Id("double"), Id("j")>>,
      <<K("{")>> \o ForReturn("i", FpLit(0), FpLit(0), <<Id("j")>>) \o <<K("}")>>),
  Def("byte", "f", <<>>,
      <<K("{")>> \o VarDecl("x", "byte", <<Id("x")>>) \o <<K(";")>>
        \o ReturnOf(<<Id("x")>>) \o <<K("}")>>),
  Def("byte", "f", ByteX, ReturnOf(<<Id("x")>>)) \o <<K(";")>>
    \o Def("byte", "g", <<>>, ReturnOf(<<Id("x")>>)),
  Def("byte", "f", <<>>,
      <<K("{"), K("return"), IntLit(1), K(";"), K("return"), Id("x"), K("}")>>),
  Def("double", "f", <<>>,
      <<K("{")>> \o ForReturn("i", FpLit(0), FpLit(0), <<FpLit(1)>>)
        \o <<K(";")>> \o ReturnOf(<<Id("i")>>) \o <<K("}")>>),
  Def("byte", "f", <<>>, ReturnOf(<<Ch("&"), Id("x")>>)),
  Def("byte", "f", <<>>, ReturnOf(<<Ch("*"), Id("x")>>)),
  Def("byte", "f", <<>>, ReturnOf(<<Id("x"), Ch("="), IntLit(1)>>)),
  Def("byte", "f", ByteX, <<Id("x"), Ch("="), Id("y")>>),
  Def("byte", "f", ByteX, ReturnOf(<<Id("x"), Ch("="), IntLit(1)>>)),
  Def("double", "f", <<>>, <<K("{"), K("}")>>),
  Def("double", "f", <<Id("double"), Id("x")>>, <<K("{"), K("}")>>),
  Def("byte", "f", <<>>, <<K("{"), K("}")>>),
  Def("double", "magic", <<>>, <<K("{"), K("}")>>),
  Def("double", "f", <<>>, <<K("{"), K("{"), K("}"), K("}")>>),
  Extern("bool", "f", <<>>),
  Extern("byte", "f", <<Id("bool"), Id("x")>>),
  Extern("byte_ptr", "f", <<Id("byte_ptr"), Id("x"), Ch(","), Id("double"), Id("y")>>),
  Extern("int", "f", <<Id("byte"), Id("x"), Ch(","), Id("int"), Id("y")>>),
  Def("byte", "f", <<>>, VarDecl("x", "bool", <<>>)),
  Def("byte", "f", <<>>, VarDecl("x", "byte_ptr", <<>>)),
  Def("byte", "f", <<>>, VarDecl("x", "double", <<FpLit(1)>>)),
  Def("byte", "f", <<>>, VarDecl("x", "int", <<IntLit(1)>>))
  }

Programs ==
  ProgramsOf(MaxItems) \cup Truncated \cup Streams(MaxToks) \cup OpStreams
    \cup Singles

\* The driver when MainLoop is entered.
DriverInit ==
  /\ pos = 1
  /\ pc = "loop"
  /\ TheModule = ResetModule(1)
  /\ nextModule = 2
  /\ FunctionProtos = [n \in {} |-> PrototypeAST("", "", <<>>, <<>>)]
  /\ NamedValues = NoNamedValues
  /\ TheJIT = <<>>
  /\ modHandle = 0
  /\ exprSymbol = NoAddr
  /\ stack = <<>>
  /\ res = RUndef
  /\ byDef = {}
  /\ anonHandles = {}
  /\ out = <<>>

Init ==
  /\ toks \in Programs
  /\ DriverInit
  /\ prog = <<>>
  /\ LexerInit

Next ==
  \/ SkipSemi
  \/ Return
  \/ HandleDefinition
  \/ HandleExtern
  \/ HandleTopLevelExpression
  \/ FindAnonExpr
  \/ InvokeAnonExpr
  \/ ExecStep
  \/ RemoveAnonModule

\* The driver on a token stream.
Spec == Init /\ [][Next]_vars

\* The process runs on for as long as it has a step to take.
FairSpec == Spec /\ WF_vars(Next)

LexInit ==
  /\ prog \in LexPrograms
  /\ LexerInit
  /\ toks = <<>>
  /\ DriverInit

LexNext ==
  \/ gettok
  \/ SkipWhitespace
  \/ StartIdentifier
  \/ ReadIdentifier
  \/ ReturnPunctuation
  \/ StartNumber
  \/ ReadNumber
  \/ StartString
  \/ ReadString
  \/ ReturnString
  \/ StartComment
  \/ ReadComment
  \/ ReturnEof
  \/ ReturnChar

\* The lexer alone, called again and again on a program text.
LexSpec == LexInit /\ [][LexNext]_vars

\* The driver on one item of the catalogue or on one of the further
\* programs: the states in which statements are generated.
StmtInit ==
  /\ toks \in ProgramsOf(1) \cup Singles
  /\ DriverInit
  /\ prog = <<>>
  /\ LexerInit

StmtSpec == StmtInit /\ [][Next]_vars

(***************************************************************************)
(* Properties.                                                             *)
(***************************************************************************)
Has(log, msg) == \E i \in 1..Len(log) : log[i] = msg

\* The handler of the step from the current state parsed its item.
ParsedDefinition ==
  pc = "loop" /\ CurTok(toks, pos) = K("def") /\ ParseDefinition(toks, pos).ok

ParsedExtern ==
  pc = "loop" /\ CurTok(toks, pos) = K("extern") /\ ParseExtern(toks, pos).ok

ParsedTopLevelExpr ==
  /\ pc = "loop"
  /\ CurTok(toks, pos)[1] \notin {"eof", ";", "def", "extern"}
  /\ ParseTopLevelExpr(toks, pos).ok

\* The step printed that the function of a def or of a top-level
\* expression was code-generated.
CodegenSucceeded ==
  Has(out', "Read function definition:") \/ Has(out', "Read a top-level expr:")

\* The prototype of the item being handled.
ItemProto ==
  IF ParsedDefinition THEN ParseDefinition(toks, pos).n[2]
  ELSE IF ParsedExtern THEN ParseExtern(toks, pos).n
  ELSE ParseTopLevelExpr(toks, pos).n[2]

ModuleIds == {TheJIT[i].mod.id : i \in 1..Len(TheJIT)}

\* C1: a def or top-level expression whose codegen succeeds hands the
\* current module to the JIT and a fresh empty module becomes current;
\* an extern neither submits nor replaces the current module; the current
\* module is never null.
C1_ModulePerItem ==
  /\ [](TheModule.id # 0)
  /\ [][/\ (pc = "loop" /\ CodegenSucceeded) =>
             /\ Len(TheJIT') = Len(TheJIT) + 1
             /\ SubSeq(TheJIT', 1, Len(TheJIT)) = TheJIT
             /\ TheJIT'[Len(TheJIT')].mod.id = TheModule.id
             /\ Defines(TheJIT'[Len(TheJIT')].mod, ItemProto.name)
             /\ TheModule'.funcs = <<>>
             /\ TheModule'.id \notin ModuleIds' \cup {0}
        /\ (pc = "loop" /\ CurTok(toks, pos) = K("extern")) =>
             /\ TheJIT' = TheJIT
             /\ TheModule'.id = TheModule.id]_vars

C1_Witness ==
  /\ pc = "loop"
  /\ Has(out, "Read function definition:")
  /\ Len(TheJIT) = 2
  /\ TheModule.funcs = <<>>

\* C2: when a module handed to the JIT holds a declaration that codegen
\* made from the registry entry of a name last registered by a def, the
\* JIT holds a module with that function's body.
C2_RegistryCallHasBody ==
  [][\A i \in 1..Len(TheJIT') :
       i > Len(TheJIT) =>
         \A k \in 1..Len(TheJIT'[i].mod.funcs) :
            LET fn == TheJIT'[i].mod.funcs[k] IN
            (/\ fn.blocks = <<>>
             /\ fn.uniq = 0
             /\ getFunction(TheModule, fn.name) = 0
             /\ fn.name \in byDef)
            => \E j \in 1..Len(TheJIT') : Defines(TheJIT'[j].mod, fn.name)]_vars

\* C3: resolveFunction returns the module's function of that name and adds
\* nothing; else it emits one declaration from the registry entry; else it
\* returns null and leaves the module alone.  A second resolve of the name
\* adds nothing.
ResolveNames == {"f", "g", "h", "__anon_expr"}

C3_ResolveFunction ==
  \A name \in ResolveNames :
     \A r \in {resolveFunction(CodegenState, name)} :
        /\ getFunction(TheModule, name) # 0 =>
             r.f = getFunction(TheModule, name) /\ r.st = CodegenState
        /\ (getFunction(TheModule, name) = 0 /\ name \in DOMAIN FunctionProtos) =>
             /\ r.f = Len(TheModule.funcs) + 1
             /\ Len(r.st.mod.funcs) = Len(TheModule.funcs) + 1
             /\ SubSeq(r.st.mod.funcs, 1, Len(TheModule.funcs)) = TheModule.funcs
             /\ r.st.mod.funcs[r.f].name = name
             /\ r.st.mod.funcs[r.f].uniq = 0
             /\ r.st.mod.funcs[r.f].blocks = <<>>
             /\ Len(r.st.mod.funcs[r.f].argTypes) = Len(FunctionProtos[name].argTypes)
             /\ r.st.protos = FunctionProtos
        /\ (getFunction(TheModule, name) = 0 /\ name \notin DOMAIN FunctionProtos) =>
             r.f = 0 /\ r.st = CodegenState
        /\ resolveFunction(r.st, name) = r

C3_Witness ==
  /\ getFunction(TheModule, "f") = 0
  /\ "f" \in DOMAIN FunctionProtos
  /\ getFunction(TheModule, "g") # 0
  /\ resolveFunction(CodegenState, "f").f = Len(TheModule.funcs) + 1

\* C4: in every compiled function every basic block ends in a terminator
\* and holds no terminator before its end.
C4_BlocksTerminated ==
  \A i \in 1..Len(TheJIT) :
     \A k \in 1..Len(TheJIT[i].mod.funcs) :
        \A b \in 1..Len(TheJIT[i].mod.funcs[k].blocks) :
           Terminated(TheJIT[i].mod.funcs[k].blocks[b])

C4_Witness ==
  \E i \in 1..Len(TheJIT) :
     \E k \in 1..Len(TheJIT[i].mod.funcs) :
        LET blocks == TheJIT[i].mod.funcs[k].blocks IN
        /\ Len(blocks) = 4
        /\ blocks[1].instrs[Len(blocks[1].instrs)].op = "condbr"
        /\ blocks[2].instrs[Len(blocks[2].instrs)].op = "ret"
        /\ blocks[4].instrs[1].op = "ret"

\* C5: when the body of a function fails to code-generate the function is
\* erased from the current module, nothing is handed to the JIT, the
\* current module stays, and the registry keeps the function's prototype.
C5_FailedBody ==
  [][((ParsedDefinition \/ ParsedTopLevelExpr) /\ ~CodegenSucceeded /\ pc' = "loop") =>
       /\ getFunction(TheModule', ItemProto.name) = 0
       /\ \A k \in 1..Len(TheModule'.funcs) : TheModule'.funcs[k].blocks = <<>>
       /\ TheJIT' = TheJIT
       /\ TheModule'.id = TheModule.id
       /\ ItemProto.name \in DOMAIN FunctionProtos'
       /\ FunctionProtos'[ItemProto.name] = ItemProto]_vars

C5_Witness ==
  /\ pc = "loop"
  /\ Has(out, "unknown variable")
  /\ "f" \in DOMAIN FunctionProtos
  /\ getFunction(TheModule, "f") = 0
  /\ TheJIT = <<>>
  /\ TheModule.id = 1

\* C6: a call is emitted only with as many arguments as the resolved
\* callee has parameters; on a different count nothing is evaluated or
\* emitted; on the same count the arguments are evaluated left to right up
\* to the first that fails.
OpenState == [CodegenState EXCEPT !.blocks = <<Block("entry", TRUE)>>, !.ip = 1]

Num1 == <<"num", "int", "", 1>>
VarY == <<"var", "y">>
CallH == <<"call", "h", <<>>>>

CallCases ==
  {<<"call", "f", args>> :
     args \in {<<>>, <<Num1>>, <<VarY>>, <<Num1, Num1>>, <<Num1, VarY>>,
               <<VarY, CallH>>, <<CallH, VarY>>}}

\* The state after the first k of args were code-generated in order.
RECURSIVE EvalPrefix(_, _, _)
EvalPrefix(args, k, st) ==
  IF k = 0 THEN st
  ELSE codegenExpr(args[k], EvalPrefix(args, k - 1, st), "crash").st

\* The first argument whose codegen yields null, 0 if none does.
FirstFailing(args, st) ==
  LET S == {k \in 1..Len(args) :
              codegenExpr(args[k], EvalPrefix(args, k - 1, st), "crash").v.k = "null"}
  IN IF S = {} THEN 0 ELSE CHOOSE k \in S : \A j \in S : k <= j

Calls(st) == SelectSeq(st.blocks[1].instrs, LAMBDA ins : ins.op = "call")

\* What the call e yields from the state st in which its callee resolved
\* to function f.
CallOutcome(e, st, f) ==
  \A r \in {CallExprAST_codegenExpr(e, OpenState, "crash")} :
  \A first \in {FirstFailing(e[3], st)} :
     IF Len(st.mod.funcs[f].argTypes) # Len(e[3])
       THEN /\ r.v.k = "null"
            /\ r.st = logErrorV(st, "incorrect # arguments passed")
     ELSE IF first # 0
       THEN /\ r.v.k = "null"
            /\ r.st = EvalPrefix(e[3], first, st)
            /\ Len(Calls(r.st)) = Len(Calls(EvalPrefix(e[3], first - 1, st)))
     ELSE /\ r.v.k = "inst"
          /\ Len(Calls(r.st)) = 1
          /\ Calls(r.st)[1].n = "f"
          /\ Len(Calls(r.st)[1].args) = Len(st.mod.funcs[f].argTypes)

C6_CallArity ==
  /\ \A i \in 1..Len(TheJIT) :
        \A k \in 1..Len(TheJIT[i].mod.funcs) :
           \A b \in 1..Len(TheJIT[i].mod.funcs[k].blocks) :
              \A ins \in {TheJIT[i].mod.funcs[k].blocks[b].instrs[j] :
                           j \in 1..Len(TheJIT[i].mod.funcs[k].blocks[b].instrs)} :
                 ins.op = "call" =>
                   \E c \in 1..Len(TheJIT[i].mod.funcs) :
                      /\ TheJIT[i].mod.funcs[c].name = ins.n
                      /\ TheJIT[i].mod.funcs[c].uniq = ins.t1
                      /\ Len(TheJIT[i].mod.funcs[c].argTypes) = Len(ins.args)
  /\ \A e \in CallCases :
        \A rf \in {resolveFunction(OpenState, e[2])} :
           rf.f # 0 => CallOutcome(e, rf.st, rf.f)

C6_Witness ==
  \E rf \in {resolveFunction(OpenState, "f")} :
  /\ rf.f # 0
  /\ Len(rf.st.mod.funcs[rf.f].argTypes) = 2
  /\ FirstFailing(<<VarY, CallH>>, rf.st) = 1
  /\ CallExprAST_codegenExpr(<<"call", "f", <<VarY, CallH>>>>, OpenState, "crash").st.log
       = <<"unknown variable">>
  /\ \E i \in 1..Len(TheJIT) : Calls(TheJIT[i].mod.funcs[Len(TheJIT[i].mod.funcs)]) # <<>>

\* C7 as stated: between top-level items no module of the JIT defines
\* __anon_expr, and at most one module defining it is live at any time.
AnonModules == {i \in 1..Len(TheJIT) : Defines(TheJIT[i].mod, "__anon_expr")}

C7_NoAnonExprBetweenItems ==
  /\ pc \in {"loop", "done"} => AnonModules = {}
  /\ Cardinality(AnonModules) <= 1

\* C7: a top-level expression whose codegen succeeds is handed to the JIT,
\* a fresh module is opened, __anon_expr is resolved, invoked, its result
\* printed and the module removed, in this order; so between top-level
\* items the JIT holds no module submitted for a top-level expression, and
\* at most one is live at any time.
LiveAnon == {i \in 1..Len(TheJIT) : TheJIT[i].h \in anonHandles}

C7_TopLevelExprLifecycle ==
  /\ [](pc \in {"loop", "done"} => LiveAnon = {})
  /\ [](Cardinality(LiveAnon) <= 1)
  /\ [][/\ (ParsedTopLevelExpr /\ CodegenSucceeded) =>
             /\ pc' = "find"
             /\ Len(TheJIT') = Len(TheJIT) + 1
             /\ TheJIT'[Len(TheJIT')].h = modHandle'
             /\ TheJIT'[Len(TheJIT')].mod.id = TheModule.id
             /\ Defines(TheJIT'[Len(TheJIT')].mod, "__anon_expr")
             /\ TheModule'.funcs = <<>> /\ TheModule'.id # TheModule.id
        /\ pc = "find" =>
             /\ TheJIT' = TheJIT
             /\ pc' = "call"
             /\ findSymbol(TheJIT, "__anon_expr") # {}
        /\ pc = "call" =>
             /\ TheJIT' = TheJIT
             /\ pc' = "run"
             /\ stack'[1].h = exprSymbol.h
        /\ pc = "run" =>
             /\ TheJIT' = TheJIT
             /\ pc' \in {"run", "remove", "aborted"}
             /\ pc' = "remove" => Has(out', "Evaluated to:")
        /\ pc = "remove" =>
             /\ pc' = "loop"
             /\ Len(TheJIT') = Len(TheJIT) - 1
             /\ \A i \in 1..Len(TheJIT') : TheJIT'[i].h # modHandle
             /\ \A i \in 1..Len(TheJIT) :
                   TheJIT[i].h # modHandle =>
                     \E j \in 1..Len(TheJIT') : TheJIT'[j] = TheJIT[i]]_vars

C7_Witness ==
  /\ pc = "loop"
  /\ Has(out, "ready> ") = FALSE
  /\ anonHandles # {}
  /\ LiveAnon = {}
  /\ Len(TheJIT) = 1

\* C8: the names of the prototype registry never shrink, and a name's
\* entry is the prototype most recently registered under it.
Registers(n) ==
  (ParsedDefinition \/ ParsedExtern \/ ParsedTopLevelExpr) /\ ItemProto.name = n

C8_RegistryAppendOnly ==
  [][/\ DOMAIN FunctionProtos \subseteq DOMAIN FunctionProtos'
     /\ \A n \in DOMAIN FunctionProtos' :
           IF Registers(n) THEN FunctionProtos'[n] = ItemProto
           ELSE n \in DOMAIN FunctionProtos /\ FunctionProtos'[n] = FunctionProtos[n]]_vars

C8_Witness ==
  /\ "f" \in DOMAIN FunctionProtos
  /\ Len(FunctionProtos["f"].argNames) = 1
  /\ \E i \in 1..Len(TheJIT) :
        \E k \in 1..Len(TheJIT[i].mod.funcs) :
           /\ TheJIT[i].mod.funcs[k].name = "f"
           /\ TheJIT[i].mod.funcs[k].blocks # <<>>
           /\ TheJIT[i].mod.funcs[k].argNames = <<>>

\* C9: on a string literal that the end of the file cuts short the lexer
\* prints a diagnostic and returns a str_lit with an empty payload, and it
\* never throws.
C9_UnterminatedString ==
  /\ [](lpc # "thrown")
  /\ [][(lpc = "string" /\ lastCh = EOF) =>
          /\ lpc' = "idle"
          /\ tok' = Tok("tok_str_literal")
          /\ StrVal' = <<>>
          /\ out' # <<>>]_vars

\* C10 as stated: the driver loop comes to its end on every token stream.
C10_LoopTerminates == <>(pc \in {"done", "aborted"})

\* The parse of the item at the current token.
ItemParse ==
  IF CurTok(toks, pos) = K("def") THEN ParseDefinition(toks, pos)
  ELSE IF CurTok(toks, pos) = K("extern") THEN ParseExtern(toks, pos)
  ELSE ParseTopLevelExpr(toks, pos)

\* C10: an iteration of the driver loop entered with a token other than
\* eof consumes at least one token, and exactly one more than the parse
\* read when the parse of the item fails (none at eof, which is never
\* consumed); entered with eof the loop returns.  So the loop comes to its
\* end or the process aborts, unless the compiled code of a top-level
\* expression runs for ever.
C10_LoopProgress ==
  /\ [][/\ pos' >= pos
        /\ pc = "loop" =>
             IF CurTok(toks, pos) = tok_eof THEN pc' = "done" /\ pos' = pos
             ELSE /\ pos' > pos
                  /\ CurTok(toks, pos) # K(";") =>
                       \A item \in {ItemParse} :
                          ~item.ok =>
                            /\ pc' = "loop"
                            /\ pos' = IF item.p > Len(toks) THEN item.p
                                      ELSE item.p + 1]_vars
  /\ [](pc = "done" => CurTok(toks, pos) = tok_eof)
  /\ <>(pc \in {"done", "aborted"}) \/ <>[](pc = "run")

C10_Witness ==
  /\ pc = "loop"
  /\ toks = <<Ch(")"), Ch("(")>>
  /\ pos = 2
  /\ Has(out, "logError: unknown token when expecting an expression")

\* C11: when the lexer returns from a run of digits and '.', the token is
\* tok_fp_literal if the run holds a '.' anywhere, its first character
\* included, and tok_int_literal otherwise.
C11_NumberKind ==
  [][(lpc = "number" /\ lpc' = "idle") =>
       tok' = IF \E i \in 1..Len(num') : num'[i] = Ascii(".")
                THEN Tok("tok_fp_literal")
                ELSE Tok("tok_int_literal")]_vars

\* The value of an uppercase hex digit, read off the digit string.
HexDigits == <<"0", "1", "2", "3", "4", "5", "6", "7", "8", "9",
               "A", "B", "C", "D", "E", "F">>

IsHexDigit(ch) == \E k \in 1..16 : Ascii(HexDigits[k]) = ch

HexValue(ch) == (CHOOSE k \in 1..16 : Ascii(HexDigits[k]) = ch) - 1

StartsWithBackslashX(s) ==
  Len(s) >= 2 /\ s[1] = Ascii("\\") /\ s[2] = Ascii("x")

\* C12: the payload of a string literal.  Contents that begin with \x and
\* have even length give one byte for each pair of uppercase hex digits that
\* follows (k bytes for 2k digits); contents that begin with \x and have odd
\* length give a diagnostic and the empty payload; all other contents are
\* the payload as they are.
C12_HexPayload ==
  [][(lpc = "string" /\ lpc' = "idle") =>
       /\ tok' = Tok("tok_str_literal")
       /\ IF ~StartsWithBackslashX(lit) THEN StrVal' = lit /\ out' = <<>>
          ELSE IF Len(lit) % 2 # 0 THEN StrVal' = <<>> /\ out' # <<>>
          ELSE (\A i \in 3..Len(lit) : IsHexDigit(lit[i])) =>
                 /\ out' = <<>>
                 /\ StrVal' = [k \in 1..((Len(lit) - 2) \div 2) |->
                                 16 * HexValue(lit[2 * k + 1])
                                   + HexValue(lit[2 * k + 2])]]_vars

\* The lexer has returned the two bytes of "\xFA09".
C12_Witness ==
  /\ lpc = "idle"
  /\ tok = Tok("tok_str_literal")
  /\ lit = Bytes("\\xFA09")
  /\ StrVal = <<250, 9>>

\* How tightly the operators bind.
Binds(op) ==
  CASE op = "=" -> 2
    [] op \in {"<", "!"} -> 10
    [] op \in {"+", "-"} -> 20
    [] op = "*" -> 40

IsBinOp(t) == t[1] = "ch" /\ t[2] \in BinOps

\* ts[1..k] is operand (operator operand)* and the token after it, if any,
\* is neither an operator nor the '(' of a call.
IsOpExpr(ts, k) ==
  /\ k % 2 = 1
  /\ \A i \in 1..k : IF i % 2 = 1 THEN ts[i][1] = "id" ELSE IsBinOp(ts[i])
  /\ k < Len(ts) => ~IsBinOp(ts[k + 1]) /\ ts[k + 1] # Ch("(")

\* The tree of ts[i..j]: its root is the operator that binds loosest, the
\* rightmost of them when there are several.
RECURSIVE TreeOf(_, _, _)
TreeOf(ts, i, j) ==
  IF i = j THEN <<"var", ts[i][2]>>
  ELSE LET ops == {k \in i..j : (k - i) % 2 = 1}
           root == CHOOSE k \in ops :
                     \A m \in ops : \/ Binds(ts[k][2]) < Binds(ts[m][2])
                                    \/ Binds(ts[k][2]) = Binds(ts[m][2]) /\ m <= k
       IN <<"bin", ts[root][2], TreeOf(ts, i, root - 1), TreeOf(ts, root + 1, j)>>

\* C13: the parser turns operand (operator operand)* into the tree in which
\* an operator that binds tighter is below its looser neighbour and equal
\* operators group to the left, and it stops at the first token that is no
\* registered operator.
C13_Precedence ==
  \A k \in 1..Len(toks) :
     IsOpExpr(toks, k) => ParseExpression(toks, 1) = Ok(TreeOf(toks, 1, k), k + 1)

\* a + b * c < d ) was parsed as (a + (b * c)) < d, up to the ')'.
C13_Witness ==
  /\ toks = <<Id("a"), Ch("+"), Id("b"), Ch("*"), Id("c"), Ch("<"), Id("d"), Ch(")")>>
  /\ pc = "loop"
  /\ pos = 8
  /\ ParseExpression(toks, 1).n =
       <<"bin", "<", <<"bin", "+", <<"var", "a">>,
                       <<"bin", "*", <<"var", "b">>, <<"var", "c">>>>>>,
         <<"var", "d">>>>

\* The item handled from the current state holds, between its first token
\* and the token its parse stopped at, name = name = name after a token
\* that is no name.
HandlesChainedAssignment ==
  /\ pc = "loop"
  /\ CurTok(toks, pos)[1] \notin {"eof", ";"}
  /\ \E k \in pos..(ItemParse.p - 5) :
        /\ k = 1 \/ toks[k - 1][1] # "id"
        /\ \A i \in 0..4 : toks[k + i][1] = IF i % 2 = 0 THEN "id" ELSE "ch"
        /\ toks[k + 1] = Ch("=")
        /\ toks[k + 3] = Ch("=")

Stores(blocks) ==
  {<<b, i>> \in (1..Len(blocks)) \X (1..20) :
     i <= Len(blocks[b].instrs) /\ blocks[b].instrs[i].op = "store"}

\* The codegen state in a function's entry block with byte variables of
\* the names in declared.
WithDeclared(declared) ==
  [OpenState EXCEPT !.named = [n \in declared |-> Variable("byte", "i8", 1)]]

\* C14: a = b = c is rejected whichever of a, b and c are declared: codegen
\* of the parsed expression yields null and emits no store, and an item that
\* holds it gives no compiled function.
C14_ChainedAssignmentRejected ==
  /\ [](\A declared \in SUBSET {"a", "b", "c"} :
          \A r \in {codegenExpr(ParseExpression(ChainedAssignment, 1).n,
                                WithDeclared(declared), "crash")} :
             /\ r.v.k = "null"
             /\ ~r.st.crashed
             /\ Stores(r.st.blocks) = {})
  /\ [][HandlesChainedAssignment =>
          /\ ~CodegenSucceeded
          /\ pc' = "loop"
          /\ TheJIT' = TheJIT
          /\ \A k \in 1..Len(TheModule'.funcs) : TheModule'.funcs[k].blocks = <<>>]_vars

\* def byte f(byte a, byte b, byte c) a = b = c was handled.
C14_Witness ==
  /\ toks = Def("byte", "f", ByteABC, ChainedAssignment)
  /\ pos = Len(toks) + 1
  /\ pc = "loop"
  /\ Has(out, "destination of assignment must be a variable")
  /\ TheJIT = <<>>

\* The function a def or top-level expression has just handed to the JIT.
JustCompiled ==
  LET mod == TheJIT'[Len(TheJIT')].mod IN mod.funcs[getFunction(mod, ItemProto.name)]

InstrsOf(fn) ==
  UNION {{fn.blocks[b].instrs[i] : i \in 1..Len(fn.blocks[b].instrs)} :
           b \in 1..Len(fn.blocks)}

\* The stack slots made in fn for a variable called name.
Allocas(fn, name) ==
  {ins.id : ins \in {a \in InstrsOf(fn) : a.op = "alloca" /\ a.n = name}}

Newest(slots) == CHOOSE a \in slots : \A b \in slots : b <= a

HasLoop(fn) == \E b \in 1..Len(fn.blocks) : fn.blocks[b].label = "loop"

\* C15: in a compiled function without loops, a name of the symbol table
\* stands for the newest stack slot made for it, and every load of a
\* variable goes through the newest slot made for its name before the load.
C15_LastWriterWins ==
  [][(pc = "loop" /\ CodegenSucceeded /\ ~HasLoop(JustCompiled)) =>
       /\ \A name \in DOMAIN NamedValues' :
             NamedValues'[name].allocaInst = Newest(Allocas(JustCompiled, name))
       /\ \A ins \in InstrsOf(JustCompiled) :
             (ins.op = "load" /\ Allocas(JustCompiled, ins.n) # {}) =>
               ins.x.id = Newest({a \in Allocas(JustCompiled, ins.n) : a < ins.id})]_vars

\* The loop block of a function with one for statement, and the stack slot
\* of the loop variable: the slot of the store before the branch into the
\* loop block.
LoopBlock(fn) == CHOOSE b \in 1..Len(fn.blocks) : fn.blocks[b].label = "loop"

LoopSlot(fn) ==
  LET entry == CHOOSE bj \in (1..Len(fn.blocks)) \X (2..20) :
                 /\ bj[2] <= Len(fn.blocks[bj[1]].instrs)
                 /\ fn.blocks[bj[1]].instrs[bj[2]].op = "br"
                 /\ fn.blocks[bj[1]].instrs[bj[2]].t1 = LoopBlock(fn)
  IN fn.blocks[entry[1]].instrs[entry[2] - 1].y.id

LoopVarName(fn) ==
  (CHOOSE a \in InstrsOf(fn) : a.op = "alloca" /\ a.id = LoopSlot(fn)).n

\* C16: in the body of a for statement the loop variable's name stands for
\* the loop's own stack slot, also when an outer variable has that name;
\* after the statement the name stands for the outer variable's slot again,
\* or for nothing if there was no outer variable.
C16_LoopVariableShadows ==
  [][(pc = "loop" /\ CodegenSucceeded /\ HasLoop(JustCompiled)) =>
       /\ \A i \in 1..Len(JustCompiled.blocks[LoopBlock(JustCompiled)].instrs) :
             \A ins \in {JustCompiled.blocks[LoopBlock(JustCompiled)].instrs[i]} :
                (ins.op = "load" /\ ins.n = LoopVarName(JustCompiled)) =>
                  ins.x.id = LoopSlot(JustCompiled)
       /\ \A outer \in {{a \in Allocas(JustCompiled, LoopVarName(JustCompiled)) :
                           a < LoopSlot(JustCompiled)}} :
             IF outer = {} THEN LoopVarName(JustCompiled) \notin DOMAIN NamedValues'
             ELSE /\ LoopVarName(JustCompiled) \in DOMAIN NamedValues'
                  /\ NamedValues'[LoopVarName(JustCompiled)].allocaInst
                       = Newest(outer)]_vars

\* What a walk over a statement or expression in the order of its codegen
\* finds: the names bound afterwards (scope), whether it met a reference to
\* a name that was not bound when it was met (unbound), and whether the
\* statement returns (ret).
Walked(scope, unbound, ret) == [scope |-> scope, unbound |-> unbound, ret |-> ret]

RECURSIVE Walk(_, _)
RECURSIVE WalkAll(_, _, _)

\* The statements or arguments of list one after the other, up to the
\* first statement that returns.
WalkAll(list, scope, unbound) ==
  IF list = <<>> THEN Walked(scope, unbound, FALSE)
  ELSE LET first == Walk(Head(list), scope) IN
       IF first.ret THEN Walked(first.scope, unbound \/ first.unbound, TRUE)
       ELSE WalkAll(Tail(list), first.scope, unbound \/ first.unbound)

WalkFor(n, scope) ==
  LET start == Walk(n[3], scope)
      body == Walk(n[6], scope \cup {n[2]})
      step == Walk(n[5], body.scope)
      end == Walk(n[4], body.scope)
  IN Walked(IF n[2] \in scope THEN body.scope ELSE body.scope \ {n[2]},
            \/ start.unbound
            \/ body.unbound
            \/ ~body.ret /\ (step.unbound \/ end.unbound),
            FALSE)

WalkIf(n, scope) ==
  LET then == Walk(n[3], scope)
      else == Walk(n[4], then.scope)
  IN Walked(else.scope,
            Walk(n[2], scope).unbound \/ then.unbound \/ else.unbound, FALSE)

Walk(n, scope) ==
  CASE n[1] = "var" -> Walked(scope, n[2] \notin scope, FALSE)
    [] n[1] = "un" ->
       Walked(scope, n[3][1] = "var" /\ n[3][2] \notin scope, FALSE)
    [] n[1] = "bin" /\ n[2] = "=" ->
       Walked(scope,
              n[3][1] = "var" /\ (Walk(n[4], scope).unbound \/ n[3][2] \notin scope),
              FALSE)
    [] n[1] = "bin" /\ n[2] # "=" ->
       Walked(scope, Walk(n[3], scope).unbound \/ Walk(n[4], scope).unbound, FALSE)
    [] n[1] = "call" -> Walked(scope, WalkAll(n[3], scope, FALSE).unbound, FALSE)
    [] n[1] = "vardecl" ->
       Walked(scope \cup {n[2]}, ~IsNull(n[4]) /\ Walk(n[4], scope).unbound, FALSE)
    [] n[1] = "ret" -> Walked(scope, Walk(n[2], scope).unbound, TRUE)
    [] n[1] = "if" -> WalkIf(n, scope)
    [] n[1] = "for" -> WalkFor(n, scope)
    [] n[1] = "block" -> WalkAll(n[2], scope, FALSE)
    [] OTHER -> Walked(scope, FALSE, FALSE)

\* The names the parameter loop binds for the item handled from the
\* current state: the arguments of the function its name resolves to.
ParameterNames ==
  LET r == resolveFunction([CodegenState EXCEPT !.protos = RegisterProto(@, ItemProto)],
                           ItemProto.name)
      args == r.st.mod.funcs[r.f].argNames
  IN {args[i] : i \in 1..Len(args)}

\* The function of the def or top-level expression handled from the
\* current state refers to a name that no parameter, var declaration or
\* enclosing for statement generated before the reference binds.
RefersToUnbound ==
  /\ ParsedDefinition \/ ParsedTopLevelExpr
  /\ Walk(ItemParse.n[3], ParameterNames).unbound

\* The four kinds of variable reference.
ReferencesTo(name) ==
  {<<"var", name>>, <<"bin", "=", <<"var", name>>, Num1>>,
   <<"un", "&", <<"var", name>>>>, <<"un", "*", <<"var", name>>>>}

StoresOf(st) == SelectSeq(st.blocks[1].instrs, LAMBDA ins : ins.op = "store")

\* Left and right sides of the assignments that are tried.
LeftSides == {<<"var", "x">>, <<"var", "y">>, Num1, <<"un", "*", <<"var", "x">>>>}

RightSides == {Num1, <<"var", "x">>, VarY, CallH, <<"bin", "+", <<"var", "x">>, Num1>>}

\* C18: lhs = rhs with lhs a bound variable generates rhs, emits after it
\* one store of its value into the slot of lhs and yields that value; when
\* lhs is no variable or not bound, or rhs yields null, the assignment
\* yields null and emits no store.
C18_Assignment ==
  \A lhs \in LeftSides : \A rhs \in RightSides : \A ub \in UBOutcomes :
     \A r \in {codegenExpr(<<"bin", "=", lhs, rhs>>, OpenState, ub)} :
     \A right \in {codegenExpr(rhs, OpenState, ub)} :
        IF lhs[1] = "var" /\ lhs[2] \in DOMAIN NamedValues /\ right.v.k # "null"
          THEN /\ r.v = right.v
               /\ r.st = CreateStore(right.st, right.v, SlotOf(NamedValues[lhs[2]]))
               /\ Len(StoresOf(r.st)) = Len(StoresOf(right.st)) + 1
          ELSE /\ r.v.k = "null"
               /\ ~r.st.crashed
               /\ StoresOf(r.st) = <<>>


\* Operands of the compares that are tried.
CompareSides == {Num1, <<"var", "x">>, VarY, CallH}

\* C19: l < r with both operands generated yields a value that is not null,
\* the 1-bit result of one unsigned less-than compare, and logs no error.
C19_LessThan ==
  \A l \in CompareSides : \A r \in CompareSides : \A ub \in UBOutcomes :
     \A left \in {codegenExpr(l, OpenState, ub)} :
     \A right \in {codegenExpr(r, left.st, ub)} :
     \A cmp \in {codegenExpr(<<"bin", "<", l, r>>, OpenState, ub)} :
        (left.v.k # "null" /\ right.v.k # "null" /\ ~right.st.crashed) =>
           /\ cmp.v.k # "null"
           /\ cmp.v.ty = "i1"
           /\ cmp.st.log = right.st.log


\* The definition being handled, and the state in which its body has been
\* generated: after the parameter loop, in the entry block.
ItemFunction == ParseDefinition(toks, pos).n

Resolved ==
  resolveFunction([CodegenState EXCEPT !.protos = RegisterProto(@, ItemProto)],
                  ItemProto.name)

BodyStart(ub) ==
  LET r == Resolved IN
  FunctionArgs(1, r.st.mod.funcs[r.f], ItemProto,
     [r.st EXCEPT !.fn = r.f,
                  !.blocks = Append(r.st.mod.funcs[r.f].blocks, Block("entry", TRUE)),
                  !.ip = Len(r.st.mod.funcs[r.f].blocks) + 1,
                  !.named = NoNamedValues,
                  !.nextId = 1],
     ub)

BodyDone(ub) ==
  [f |-> Resolved.f, res |-> codegen(ItemFunction[3], BodyStart(ub), ub)]

\* The blocks of the function when its codegen is over, verified or not.
BlocksAtEnd(ub) ==
  LET end == FunctionEnd(ItemProto, BodyDone(ub).f, BodyDone(ub).res) IN
  IF end.res = "ok" THEN end.st.mod.funcs[end.f].blocks ELSE end.st.blocks

DefaultReturn == Instr("ret", "", 0, ConstV("double", 0), NullV, "", <<>>, 0, 0)

EndsWithDefaultReturn(blocks) ==
  /\ blocks # <<>>
  /\ blocks[Len(blocks)].instrs # <<>>
  /\ blocks[Len(blocks)].instrs[Len(blocks[Len(blocks)].instrs)] = DefaultReturn

BodyGenerated(ub) ==
  ParsedDefinition /\ BodyDone(ub).res.success /\ ~BodyDone(ub).res.st.crashed

\* C20: when the body of a definition has been generated, a default
\* `return 0.0` is emitted exactly when the body did not return and the
\* insertion block is empty; a function whose body is {} ends with that
\* default return, whatever its parameters.
C20_DefaultReturn ==
  \A ub \in UBOutcomes :
     BodyGenerated(ub) =>
       LET body == BodyDone(ub).res IN
       /\ (BlocksAtEnd(ub) # body.st.blocks)
            <=> (~body.ret /\ body.st.blocks[body.st.ip].instrs = <<>>)
       /\ BlocksAtEnd(ub) # body.st.blocks
            => BlocksAtEnd(ub)
                 = [body.st.blocks EXCEPT ![body.st.ip].instrs = <<DefaultReturn>>]
       /\ ItemFunction[3] = <<"block", <<>>>> => EndsWithDefaultReturn(BlocksAtEnd(ub))


\* C21: the if production returns a node only with a condition, a then
\* branch and an else branch that were all parsed; otherwise it returns
\* null, never a node with a null branch.
C21_IfNodeComplete ==
  \A p \in 1..Len(toks) :
     CurTok(toks, p) = K("if") =>
       \A r \in {ParseIfStmt(toks, p)} :
          IF r.ok
            THEN /\ r.n[1] = "if"
                 /\ ~IsNull(r.n[2]) /\ ~IsNull(r.n[3]) /\ ~IsNull(r.n[4])
            ELSE IsNull(r.n)


\* The tokens a primary can start with.
StartsPrimary(t) ==
  t[1] \in {"id", "int", "fp", "str"} \/ t = Ch("(") \/ (t[1] = "ch" /\ t[2] \in UnaryOps)

\* C22: where a statement is expected, every token that can start a primary
\* starts an expression statement: the statement parsed there is the
\* expression parsed there.
C22_ExpressionStatement ==
  \A p \in 1..Len(toks) :
     StartsPrimary(CurTok(toks, p)) => ParseStmt(toks, p) = ParseExpression(toks, p)


\* The type names of the language.
TypeNames == {"double", "byte", "bool", "byte_ptr"}

NamesType(t) == t[1] = "id" /\ t[2] \in TypeNames

\* C23: the type parser accepts double, byte, bool and byte_ptr, and
\* rejects every other identifier with a null result, as the return type of
\* a prototype, as the type of a parameter and as the type of a var
\* declaration.
C23_TypeNames ==
  \A p \in 1..Len(toks) :
     /\ CurTok(toks, p)[1] = "id" =>
          /\ ParseDataType(toks, p).ok <=> NamesType(CurTok(toks, p))
          /\ ~NamesType(CurTok(toks, p)) => IsNull(ParseDataType(toks, p).n)
     /\ (CurTok(toks, p) \in {K("def"), K("extern")} /\ CurTok(toks, p + 1)[1] = "id") =>
          LET proto == ParsePrototype(toks, p + 1) IN
          (~proto.ok /\ proto.p = p + 1) <=> ~NamesType(CurTok(toks, p + 1))
     /\ (CurTok(toks, p) \in {Ch("("), Ch(",")} /\ CurTok(toks, p + 1)[1] = "id") =>
          LET args == ParseProtoArgs(toks, p, <<>>, <<>>) IN
          (~args.ok /\ args.p = p + 1) <=> ~NamesType(CurTok(toks, p + 1))
     /\ (CurTok(toks, p) = K("var") /\ CurTok(toks, p + 1)[1] = "id"
           /\ CurTok(toks, p + 2)[1] = "id") =>
          LET decl == ParseVariableDeclStmt(toks, p) IN
          (~decl.ok /\ decl.p = p + 2) <=> ~NamesType(CurTok(toks, p + 2))


\* Whether a statement whose codegen succeeds reports that it returned, read
\* off the statement itself: a return does, a block does when one of its
\* statements does, nothing else does.
RECURSIVE ReportsReturned(_)
ReportsReturned(s) ==
  CASE s[1] = "ret" -> TRUE
    [] s[1] = "block" -> \E i \in 1..Len(s[2]) : ReportsReturned(s[2][i])
    [] OTHER -> FALSE

RECURSIVE HasIf(_)
HasIf(s) ==
  CASE s[1] = "if" -> TRUE
    [] s[1] = "block" -> \E i \in 1..Len(s[2]) : HasIf(s[2][i])
    [] OTHER -> FALSE

\* The unconditional branches to block dest, as <<block, index>> pairs.
BranchesTo(blocks, dest) ==
  {bi \in UNION {{<<b, i>> : i \in 1..Len(blocks[b].instrs)} : b \in 1..Len(blocks)} :
     /\ blocks[bi[1]].instrs[bi[2]].op = "br"
     /\ blocks[bi[1]].instrs[bi[2]].t1 = dest}

EndsWithBranchTo(block, dest) ==
  /\ block.instrs # <<>>
  /\ block.instrs[Len(block.instrs)].op = "br"
  /\ block.instrs[Len(block.instrs)].t1 = dest

\* The if statements that are generated.
Ret1 == <<"ret", Num1>>

IfBranches ==
  {Ret1, Num1, VarY, <<"block", <<>>>>, <<"block", <<Num1, Ret1>>>>,
   <<"block", <<Ret1, Num1>>>>, <<"if", Num1, Ret1, Ret1>>,
   <<"if", <<"var", "x">>, Num1, Ret1>>}

IfCases ==
  {<<"if", c, t, e>> : c \in {Num1, <<"var", "x">>}, t \in IfBranches, e \in IfBranches}

\* C24: if codegen ends a branch with an unconditional branch to the merge
\* block exactly when the branch did not report that it returned; afterwards
\* the insertion point is the merge block, appended to the function, and the
\* statement reports that it did not return, also when both branches did.
C24_IfMerge ==
  \A s \in IfCases : \A ub \in UBOutcomes :
     \A r \in {IfStmtAST_codegen(s, OpenState, ub)} :
        LET then == Len(OpenState.blocks) + 1
            else == then + 1
            merge == then + 2
        IN r.success =>
             /\ ~r.ret
             /\ r.st.ip = merge
             /\ r.st.blocks[merge] = Block("ifcont", TRUE)
             /\ Cardinality(BranchesTo(r.st.blocks, merge))
                  = (IF ReportsReturned(s[3]) THEN 0 ELSE 1)
                      + (IF ReportsReturned(s[4]) THEN 0 ELSE 1)
             /\ \A bi \in BranchesTo(r.st.blocks, merge) :
                   bi[2] = Len(r.st.blocks[bi[1]].instrs)
             /\ ~HasIf(s[3]) =>
                  (EndsWithBranchTo(r.st.blocks[then], merge) <=> ~ReportsReturned(s[3]))
             /\ ~HasIf(s[4]) =>
                  (EndsWithBranchTo(r.st.blocks[else], merge) <=> ~ReportsReturned(s[4]))

\* Both branches of an if on the parameter x returned, and one did not.
C24_Witness ==
  /\ "x" \in DOMAIN NamedValues
  /\ IfStmtAST_codegen(<<"if", <<"var", "x">>, Ret1, Ret1>>, OpenState, "crash").success
  /\ IfStmtAST_codegen(<<"if", <<"var", "x">>, Num1, Ret1>>, OpenState, "crash").success


\* The for statements that are generated: for i = 0.0, end, step body.
Fp(val) == <<"num", "fp", "", val>>

VarI == <<"var", "i">>

ForBodies ==
  {Fp(1), VarI, VarY, <<"ret", VarI>>, <<"block", <<>>>>, <<"block", <<VarI, <<"ret", Fp(1)>>>>>>}

ForCases ==
  {<<"for", "i", Fp(0), end, step, body>> :
     end \in {Fp(0), VarI, VarY}, step \in {Fp(1), VarI}, body \in ForBodies}

\* The instructions an operand or a body of these statements is made of:
\* a literal takes none, a variable one load.
RECURSIVE OpsFor(_)
OpsFor(s) ==
  CASE s[1] = "var" -> <<"load">>
    [] s[1] = "ret" -> OpsFor(s[2]) \o <<"ret">>
    [] s[1] = "block" ->
         IF s[2] = <<>> THEN <<>>
         ELSE IF ReportsReturned(Head(s[2])) THEN OpsFor(Head(s[2]))
         ELSE OpsFor(Head(s[2])) \o OpsFor(<<"block", Tail(s[2])>>)
    [] OTHER -> <<>>

OpsIn(block) == [i \in 1..Len(block.instrs) |-> block.instrs[i].op]

\* The compare of the end condition with 0.0 is folded when the end
\* condition is a literal.
EndOps(end) == IF end[1] = "num" THEN <<>> ELSE OpsFor(end) \o <<"fcmp_one">>

MaxStmts == 3

BlockExprs == {Num1, <<"var", "x">>, VarY}

BlockStmtCases ==
  BlockExprs \cup {<<"ret", e>> : e \in BlockExprs} \cup {<<"if", Num1, Ret1, Ret1>>}

RECURSIVE BlockBodies(_)
BlockBodies(n) ==
  IF n = 0 THEN {<<>>}
  ELSE LET shorter == BlockBodies(n - 1) IN
       shorter \cup {Append(b, s) : b \in shorter, s \in BlockStmtCases}

\* The results of the statements of body, each generated in the state the
\* one before it left; done holds those of the first Len(done).
RECURSIVE StmtResults(_, _)
StmtResults(body, done) ==
  IF Len(done) = Len(body) THEN done
  ELSE StmtResults(body,
         Append(done, codegen(body[Len(done) + 1],
                              IF done = <<>> THEN OpenState ELSE done[Len(done)].st,
                              "crash")))

\* The first of the results that is a failure or reports a return; 0 when
\* there is none.
StopsAt(results) ==
  LET stops == {i \in 1..Len(results) : ~results[i].success \/ results[i].ret}
  IN IF stops = {} THEN 0 ELSE CHOOSE i \in stops : \A j \in stops : i <= j

\* C26: block codegen generates its statements in order and stops at the
\* first that fails, whose failure it reports, or that reports that it
\* returned, reporting the same; it reports success without return only when
\* every statement succeeded and none returned.  An expression statement
\* never reports that it returned; a return whose expression is generated
\* always does.
C26_BlockStops ==
  /\ \A body \in BlockBodies(MaxStmts) :
        \A r \in {codegen(<<"block", body>>, OpenState, "crash")} :
        \A results \in {StmtResults(body, <<>>)} :
        \A k \in {StopsAt(results)} :
           IF k = 0
             THEN /\ r.success /\ ~r.ret
                  /\ r.st = IF body = <<>> THEN OpenState ELSE results[Len(body)].st
             ELSE /\ r.st = results[k].st
                  /\ r.success = results[k].success
                  /\ r.ret = (r.success /\ results[k].ret)
  /\ \A e \in BlockExprs :
        \A v \in {codegenExpr(e, OpenState, "crash")} :
        \A stmt \in {codegen(e, OpenState, "crash")} :
        \A ret \in {codegen(<<"ret", e>>, OpenState, "crash")} :
           /\ ~stmt.ret
           /\ stmt.success = (v.v.k # "null")
           /\ v.v.k # "null" => ret = CodegenRes(CreateRet(v.st, v.v), TRUE, TRUE)
           /\ v.v.k = "null" => ~ret.success

\* A block was cut short by a return of the parameter x, and a block of
\* expressions ran to its end.
C26_Witness ==
  /\ "x" \in DOMAIN NamedValues
  /\ StopsAt(StmtResults(<<Num1, <<"ret", <<"var", "x">>>>, Num1>>, <<>>)) = 2
  /\ StopsAt(StmtResults(<<<<"var", "x">>, Num1>>, <<>>)) = 0


\* Instruction ins is in the entry block of st.
InEntry(st, ins) ==
  \E i \in 1..Len(st.blocks[1].instrs) : st.blocks[1].instrs[i] = ins

\* Parameter i of prototype p is bound in st to a slot of the entry block
\* that holds the incoming argument.
ParameterBound(st, p, i) ==
  /\ p.argNames[i] \in DOMAIN st.named
  /\ \A v \in {st.named[p.argNames[i]]} :
        /\ v.type = p.argTypes[i]
        /\ v.llvmType = getLLVMType(p.argTypes[i])
        /\ InEntry(st, Instr("alloca", v.llvmType, v.allocaInst, NullV, NullV,
                             p.argNames[i], <<>>, 0, 0))
        /\ InEntry(st, Instr("store", "", 0, ArgV(v.llvmType, i, p.argNames[i]),
                             SlotOf(v), "", <<>>, 0, 0))

\* C27: when the body of a definition starts code generation the symbol
\* table holds one entry for each parameter of the definition, bound to a
\* slot of its own in the entry block into which the incoming argument was
\* stored, and no other entry.
C27_ParametersBound ==
  \A ub \in UBOutcomes :
     ParsedDefinition =>
       \A st \in {BodyStart(ub)} :
          /\ ~st.crashed
          /\ DOMAIN st.named = {ItemProto.argNames[i] : i \in 1..Len(ItemProto.argNames)}
          /\ \A i \in 1..Len(ItemProto.argNames) : ParameterBound(st, ItemProto, i)
          /\ \A i, j \in 1..Len(ItemProto.argNames) :
                i # j => st.named[ItemProto.argNames[i]].allocaInst
                           # st.named[ItemProto.argNames[j]].allocaInst


\* The names the var declarations of statement s declare.
RECURSIVE DeclaredNames(_)
DeclaredNames(s) ==
  CASE s[1] = "vardecl" -> {s[2]}
    [] s[1] = "block" -> UNION {DeclaredNames(s[2][i]) : i \in 1..Len(s[2])}
    [] s[1] = "if" -> DeclaredNames(s[3]) \cup DeclaredNames(s[4])
    [] s[1] = "for" -> DeclaredNames(s[6])
    [] OTHER -> {}

\* The names bound when statement s has been generated from a table that
\* binds the names bound: a var declaration adds its name, a block stops at
\* the statement that returns, a for statement takes its variable out again
\* unless it was bound before the loop.
RECURSIVE Residue(_, _)
Residue(s, bound) ==
  CASE s[1] = "vardecl" -> bound \cup {s[2]}
    [] s[1] = "block" ->
         IF s[2] = <<>> THEN bound
         ELSE IF ReportsReturned(Head(s[2])) THEN Residue(Head(s[2]), bound)
         ELSE Residue(<<"block", Tail(s[2])>>, Residue(Head(s[2]), bound))
    [] s[1] = "if" -> Residue(s[4], Residue(s[3], bound))
    [] s[1] = "for" ->
         IF s[2] \in bound THEN Residue(s[6], bound)
         ELSE Residue(s[6], bound \cup {s[2]}) \ {s[2]}
    [] OTHER -> bound

\* The function handled from the current state.
ItemBody ==
  IF ParsedDefinition THEN ParseDefinition(toks, pos).n[3]
  ELSE ParseTopLevelExpr(toks, pos).n[3]

HasParametersOf(fn, p) ==
  /\ Len(fn.argNames) = Len(p.argNames)
  /\ fn.argNames = p.argNames
  /\ fn.argTypes = [i \in 1..Len(p.argTypes) |-> getLLVMType(p.argTypes[i])]

\* C29: the function that receives the body of a definition has the
\* parameters of the definition's own prototype, which is the prototype the
\* registry holds under the name, also when the current module holds a
\* declaration of the name that an extern with other parameters made.
C29_OwnPrototype ==
  /\ [](ParsedDefinition =>
          /\ HasParametersOf(Resolved.st.mod.funcs[Resolved.f], ItemProto)
          /\ Resolved.st.protos[ItemProto.name] = ItemProto)
  /\ [][(ParsedDefinition /\ CodegenSucceeded) =>
          /\ HasParametersOf(JustCompiled, ItemProto)
          /\ FunctionProtos'[ItemProto.name] = ItemProto]_vars


\* The functions of module mod that have a body.
Definitions(mod) == {i \in 1..Len(mod.funcs) : mod.funcs[i].blocks # <<>>}

\* C30: between top-level items the current module holds no function with
\* a body, only declarations and constant globals; every module handed to
\* the JIT holds one function with a body, the one generated last before
\* the module was handed over.
C30_OneDefinitionPerModule ==
  /\ [](pc = "loop" => Definitions(TheModule) = {})
  /\ [](\A j \in 1..Len(TheJIT) : Cardinality(Definitions(TheJIT[j].mod)) = 1)
  /\ [][((ParsedDefinition \/ ParsedTopLevelExpr) /\ CodegenSucceeded) =>
          /\ Len(TheJIT') = Len(TheJIT) + 1
          /\ \A mod \in {TheJIT'[Len(TheJIT')].mod} :
                Definitions(mod) = {getFunction(mod, ItemProto.name)}]_vars

\* Between two items, after a module was handed to the JIT, the body of a
\* def failed to generate and its function was erased.
C30_Witness ==
  /\ pc = "loop"
  /\ pos > 1
  /\ TheJIT # <<>>
  /\ Has(out, "unknown variable")
  /\ ~Has(out, "Read function definition:")

=============================================================================
